---------------------------- MODULE Spec2Model ----------------------------
(***************************************************************************)
(* Model of tlee933/ai-suricata: the alert consumer group                  *)
(* (src/stream_consumer.py) and the firewall command dispatcher            *)
(* (src/pfsense_agent.py).                                                 *)
(*                                                                         *)
(* A stream record is identified by its position 1..Len(stream); the only  *)
(* property of its content that the consumer code branches on is whether   *)
(* _parse_message decodes it, so a record is modelled by that flag.        *)
(* Time is counted in ticks; an entry of the pending list carries its idle *)
(* time (time_since_delivered), saturating at MaxIdle.  Every call of the  *)
(* transport may fail; a failure is the branch the code's except clause    *)
(* takes.  The write-only statistics counters (self.stats) of the consumer *)
(* and the delivery counter of a pending entry, which no code reads, are   *)
(* left out.                                                               *)
(*                                                                         *)
(* The state cache (src/redis_client.py) is modelled key by key: a key     *)
(* with an expiry carries its remaining life in ticks, -1 stands for a key *)
(* without expiry and 0 for a key that does not exist.  Every operation of *)
(* the cache is one action; the transport command of the operation that    *)
(* raises, if any, is an input of the action.  The metric cache and the    *)
(* monitoring operations (get_stats, get_key_count, flush_all) are left    *)
(* out.                                                                    *)
(*                                                                         *)
(* Further components: the creation and the reset of the consumer group,   *)
(* the threads of the agent that write the health stream, the              *)
(* TrainingDataCollector (src/training_data_collector.py) with its flusher *)
(* thread, the JSON text of an event on the wire, and the alert generator  *)
(* in single-consumer mode, where a blocking xread is a call and a reply.  *)
(***************************************************************************)
EXTENDS Integers, Sequences, FiniteSets, TLC

\* ------------------------------------------------------------- bounds
MaxMsgs == 2
MaxReclaimMsgs == 1
MaxIdle == 1
MaxCmds == 2
MaxLines == 3
MaxTtl == 2
MaxCount == 2
MaxLimit == 2
MaxScore == 3
MaxBeats == 2
MaxExamples == 3
MaxBuffer == 2
MaxReads == 2
MaxRules == 2
MaxErrors == 7

\* -------------------------------------------------- program constants
NextCount == 1
FollowCount == 10
XPendingCount == 100
CommandCount == 10

Consumers == {"c1", "c2"}
Thresholds == 0..MaxIdle

VARIABLES
    stream,         \* alerts stream: sequence of records, TRUE = decodes
    lastDelivered,  \* the group's last-delivered id
    pel,            \* pending entries: id -> [owner, idle]
    alive,          \* consumer process is running
    pc,             \* position of each consumer
    op,             \* the generator the consumer is in: none / next / follow
    batch,          \* records of the current consume_alerts batch not yet handled
    cur,            \* record last yielded to the consumer's caller
    scan,           \* claim pass: ids of the xpending_range reply still to be claimed
    thr,            \* claim pass: min_idle_time_ms
    yielded,        \* history: <<id, consumer, "read" | "claim">> yields to the caller
    handed,         \* history: ids returned/yielded to the pipeline by a generator
    ackLog,         \* history: <<id, ok>> calls of acknowledge, ok = XACK went through
    race,           \* history: records claimed since the last tick, by whom
    polls,          \* history: parity of the reads of the consumer that came back empty
    cmds,           \* command stream (blocks stream)
    lastId,         \* process_commands: last_id
    apc,            \* process_commands: position
    abatch,         \* process_commands: commands of the xread reply not yet executed
    ackStream,      \* acks stream
    rules,          \* $config['filter']['rule']: source addresses of the AI block rules
    execLog,        \* history: the invocations of execute_command
    log,            \* eve.json: the lines written since the agent started, by kind
    tailPos,        \* watch_eve_log: number of lines read
    tailing,        \* watch_eve_log: the loop is running
    appended,       \* alerts stream as the agent sees it: the lines whose record was appended
    failedPub,      \* history: the lines for which publish_alert returned False
    astats,         \* self.stats of the agent: alerts_published, errors
    enabled,        \* RedisClient.enabled
    blocked,        \* blocked_ip:{ip} keys
    activeBlocks,   \* the active_blocks set
    rateKeys,       \* rate_limit:{ip}:{window} keys
    behavior,       \* ip_behavior:{ip} hashes
    topIps,         \* the top_ips sorted set: member -> score (0 = not a member)
    ret,            \* the last call of a cache operation and what it returned
    blockLog,       \* history: ttl and age of the last block record written per ip
    rateLog,        \* history: calls and age of the current window per rate key
    behLog,         \* history: the last profile written per ip, its ttl and age
    groupExists,    \* the consumer group of the alerts stream exists
    createLog,      \* history: calls of _create_consumer_group (parity) and the last outcome
    running,        \* PfSenseAgent.running
    mpc,            \* main thread of the agent: watch / unwind / finally / return / exited
    spc,            \* stats_loop thread: check / stats / health / done
    health,         \* health stream: the status of each record
    hcalls,         \* history: the calls of publish_stats and publish_health
    buffer,         \* TrainingDataCollector.buffer: the examples not yet written
    disk,           \* the examples in the decisions file
    stopEvent,      \* TrainingDataCollector.stop_event is set
    fpc,            \* the TrainingDataFlusher thread: wait / flush / done
    dpc,            \* the owner of the collector: run / final / stopped
    flushLog,       \* history: the last call of flush_buffer by each caller and what it returned
    lateLog,        \* history: an example was logged after stop() was called
    wevent,         \* the event that watch_eve_log parsed from a line of eve.json
    wire,           \* the record of that event in the alerts stream, once published
    wyield,         \* the dict that the consumer yields for that record
    wpc,            \* where the event is: line / published / failed / yielded
    genLastId,      \* StreamAlertGenerator.last_id (single-consumer mode)
    gpc,            \* the single-consumer generator: idle / xread
    gop,            \* the generator it is in: none / next / follow
    gfrom,          \* the id that the xread in flight reads after
    gupto,          \* the last id of the stream when that xread was sent
    greads,         \* history: how often xread returned each record to the generator
    gdelivered,     \* history: ids that the generator handed to the pipeline
    gstart,         \* history: the last id of the stream at the generator's first xread, -1 before it
    kpc,            \* concurrent callers of the cache: the command each is about to send
    karg,           \* the ip of the caller's call, or of the srem of its cleanup
    klist,          \* cleanup_expired_blocks: the ips of active_ips not yet gone through
    sreg,           \* stats['errors'] += 1 in a thread of the agent: the value read, -1 outside
    scounted,       \* history: the failures that the loops of the agent counted
    ckind,          \* the redis_client that the consumer was built on: enabled / disabled / absent
    cstats,         \* the consumer has its self.stats attribute
    cret            \* the last call of a method of a disabled consumer and how it ended

cvars == <<stream, lastDelivered, pel, alive, pc, op, batch, cur, scan, thr,
           yielded, handed, ackLog, race, polls>>

avars == <<cmds, lastId, apc, abatch, ackStream, rules, execLog>>

tvars == <<log, tailPos, tailing, appended, failedPub, astats>>

kvars == <<enabled, blocked, activeBlocks, rateKeys, behavior, topIps, ret,
           blockLog, rateLog, behLog>>

gvars == <<groupExists, createLog>>

\* the variables of the components that the consumers, the dispatcher, the
\* tailing loop and the cache leave alone
hvars == <<running, mpc, spc, health, hcalls>>

dvars == <<buffer, disk, stopEvent, fpc, dpc, flushLog, lateLog>>

wvars == <<wevent, wire, wyield, wpc>>

mvars == <<genLastId, gpc, gop, gfrom, gupto, greads, gdelivered, gstart>>

pvars == <<kpc, karg, klist, sreg, scounted, ckind, cstats, cret>>

xvars == <<gvars, hvars, dvars, wvars, mvars, pvars>>

vars == <<cvars, avars, tvars, kvars, xvars>>

\* ------------------------------------------------------------ helpers
Min(S) == CHOOSE x \in S : \A y \in S : x <= y

Max(S) == CHOOSE x \in S : \A y \in S : y <= x

\* the ids of S (positive integers) in increasing order
SortedSeq(S) ==
    IF S = {} THEN <<>>
    ELSE SelectSeq([i \in 1..Max(S) |-> i], LAMBDA x : x \in S)

Take(s, n) == IF Len(s) <= n THEN s ELSE SubSeq(s, 1, n)

Range(s) == {s[i] : i \in 1..Len(s)}

\* the decimal text of a number below 10, and int() of such a text
Digits == <<"0", "1", "2", "3", "4", "5", "6", "7", "8", "9">>

Str(n) == Digits[n + 1]

ParseInt(t) == CHOOSE n \in 0..9 : Digits[n + 1] = t

\* ---------------------------------------------- transport (Redis) side
\* XREADGROUP ... '>' / XREAD after an id, COUNT n: the next n ids of a stream
ReadAfter(last, len, n) == Take(SortedSeq((last + 1)..len), n)

\* (mutation of XReadGroupIds: the read starts at id 0 instead of '>')
XReadGroupIdsFromStart(n) == ReadAfter(0, Len(stream), n)

\* XREADGROUP delivers from the group's last-delivered id on
XReadGroupIds(n) == ReadAfter(lastDelivered, Len(stream), n)

\* XPENDING s g - + n: the first n pending entries, by id
XPendingRange(n) ==
    LET ids == Take(SortedSeq(DOMAIN pel), n) IN
    [i \in 1..Len(ids) |-> [id |-> ids[i], idle |-> pel[ids[i]].idle]]

\* (mutation of XClaimable: xclaim called without its min_idle_time)
XClaimableAnyIdle(id, minIdle) == id \in DOMAIN pel

\* XCLAIM s g c min-idle-time id: claimed iff pending and idle at least that long
XClaimable(id, minIdle) == id \in DOMAIN pel /\ pel[id].idle >= minIdle

\* XACK s g id
XAck(id) == [x \in DOMAIN pel \ {id} |-> pel[x]]

\* _parse_message: the decoded event (TRUE), or None
ParseMessage(id) == stream[id]

InitGroup ==
    /\ stream = <<>>
    /\ lastDelivered = 0
    /\ pel = <<>>
    /\ alive = [c \in Consumers |-> TRUE]
    /\ pc = [c \in Consumers |-> "idle"]
    /\ op = [c \in Consumers |-> "none"]
    /\ batch = [c \in Consumers |-> <<>>]
    /\ cur = [c \in Consumers |-> 0]
    /\ scan = [c \in Consumers |-> <<>>]
    /\ thr = [c \in Consumers |-> 0]
    /\ yielded = {}
    /\ handed = {}
    /\ ackLog = {}
    /\ race = {}
    /\ polls = [c \in Consumers |-> FALSE]

\* ------------------------------------------------ RedisStreamConsumer
\* acknowledge(msg_id): XACK; a transport error is printed and swallowed
Acknowledge(id, ok) ==
    /\ pel' = IF ok THEN XAck(id) ELSE pel
    /\ ackLog' = ackLog \cup {<<id, ok>>}

\* (mutation of ConsumeYields: the test of line 112 dropped)
ConsumeYieldsAll(id) == TRUE

\* consume_alerts, line 112: a record is yielded iff it decoded
ConsumeYields(id) == ParseMessage(id)

\* consume_alerts up to the first record: the XREADGROUP call
ConsumeAlertsCall(c, count, o) ==
    /\ alive[c] /\ pc[c] = "idle"
    /\ \E ok \in BOOLEAN :
         IF ok /\ groupExists
         THEN LET ids == XReadGroupIds(count) IN
              /\ ids # <<>>
              /\ lastDelivered' = ids[Len(ids)]
              /\ pel' = [m \in DOMAIN pel \cup Range(ids) |->
                           IF m \in Range(ids) THEN [owner |-> c, idle |-> 0] ELSE pel[m]]
              /\ batch' = [batch EXCEPT ![c] = ids]
              /\ op' = [op EXCEPT ![c] = o]
              /\ pc' = [pc EXCEPT ![c] = "consume"]
         ELSE \* xreadgroup raised (a transport error, or NOGROUP): printed,
              \* time.sleep(1), nothing is yielded
              UNCHANGED <<lastDelivered, pel, batch, op, pc>>
    /\ UNCHANGED <<stream, alive, cur, scan, thr, yielded, handed, ackLog, race>>
    /\ UNCHANGED <<polls, avars, tvars, kvars, xvars>>

\* consume_alerts, lines 101-102: the read timed out with no record for the
\* consumer (nothing new in the stream); __next__ sleeps and calls again
EmptyPoll(c) ==
    /\ alive[c] /\ pc[c] = "idle"
    /\ groupExists
    /\ XReadGroupIds(NextCount) = <<>>
    /\ polls' = [polls EXCEPT ![c] = ~@]
    /\ UNCHANGED <<stream, lastDelivered, pel, alive, pc, op, batch, cur, scan, thr,
                   yielded, handed, ackLog, race>>
    /\ UNCHANGED <<avars, tvars, kvars, xvars>>

\* StreamAlertGenerator.__next__: consume_alerts(count=1, block_ms=1000)
NextCall(c) == ConsumeAlertsCall(c, NextCount, "next")

\* StreamAlertGenerator.follow: consume_alerts(count=10, block_ms=1000)
FollowCall(c) == ConsumeAlertsCall(c, FollowCount, "follow")

\* consume_alerts, one turn of the loop over the batch (lines 105-116); a
\* decoded record is yielded, and follow yields it on to the pipeline at once
ConsumeStep(c) ==
    /\ alive[c] /\ pc[c] = "consume" /\ batch[c] # <<>>
    /\ LET id == Head(batch[c])
           rest == Tail(batch[c]) IN
       /\ batch' = [batch EXCEPT ![c] = rest]
       /\ IF ConsumeYields(id)
          THEN /\ yielded' = yielded \cup {<<id, c, "read">>}
               /\ cur' = [cur EXCEPT ![c] = id]
               /\ handed' = IF op[c] = "follow" THEN handed \cup {id} ELSE handed
               /\ pc' = [pc EXCEPT ![c] = IF op[c] = "follow" THEN "resume" ELSE "ack"]
               /\ UNCHANGED <<pel, op, ackLog>>
          ELSE /\ \E ok \in BOOLEAN : Acknowledge(id, ok)
               /\ pc' = [pc EXCEPT ![c] = IF rest = <<>> THEN "idle" ELSE "consume"]
               /\ op' = [op EXCEPT ![c] = IF rest = <<>> THEN "none" ELSE @]
               /\ UNCHANGED <<yielded, cur, handed>>
    /\ UNCHANGED <<stream, lastDelivered, alive, scan, thr, race>>
    /\ UNCHANGED <<polls, avars, tvars, kvars, xvars>>

\* __next__, line 410: acknowledge(msg_id)
NextAck(c) ==
    /\ alive[c] /\ pc[c] = "ack"
    /\ \E ok \in BOOLEAN : Acknowledge(cur[c], ok)
    /\ pc' = [pc EXCEPT ![c] = "return"]
    /\ UNCHANGED <<stream, lastDelivered, alive, op, batch, cur, scan, thr,
                   yielded, handed, race>>
    /\ UNCHANGED <<polls, avars, tvars, kvars, xvars>>

\* __next__, line 411: return alert_data (the generator is dropped)
NextReturn(c) ==
    /\ alive[c] /\ pc[c] = "return"
    /\ handed' = handed \cup {cur[c]}
    /\ pc' = [pc EXCEPT ![c] = "idle"]
    /\ op' = [op EXCEPT ![c] = "none"]
    /\ batch' = [batch EXCEPT ![c] = <<>>]
    /\ cur' = [cur EXCEPT ![c] = 0]
    /\ UNCHANGED <<stream, lastDelivered, pel, alive, scan, thr, yielded,
                   ackLog, race>>
    /\ UNCHANGED <<polls, avars, tvars, kvars, xvars>>

\* follow, line 434: the pipeline resumes the generator, acknowledge(msg_id)
FollowAck(c) ==
    /\ alive[c] /\ pc[c] = "resume"
    /\ \E ok \in BOOLEAN : Acknowledge(cur[c], ok)
    /\ pc' = [pc EXCEPT ![c] = IF batch[c] = <<>> THEN "idle" ELSE "consume"]
    /\ op' = [op EXCEPT ![c] = IF batch[c] = <<>> THEN "none" ELSE @]
    /\ cur' = [cur EXCEPT ![c] = 0]
    /\ UNCHANGED <<stream, lastDelivered, alive, batch, scan, thr,
                   yielded, handed, race>>
    /\ UNCHANGED <<polls, avars, tvars, kvars, xvars>>

\* claim_pending_messages, line 264: the entry of the reply is old enough
ClaimWanted(e, minIdle) == e.idle >= minIdle

\* the ids of the reply that the loop goes on to claim, in order
Wanted(reply, minIdle) ==
    LET F[i \in 0..Len(reply)] ==
          IF i = 0 THEN <<>>
          ELSE IF ClaimWanted(reply[i], minIdle) THEN Append(F[i - 1], reply[i].id)
          ELSE F[i - 1]
    IN F[Len(reply)]

\* claim_pending_messages, lines 255-261: the reply of xpending_range
PendingReply == XPendingRange(XPendingCount)

\* claim_pending_messages up to the first xclaim: the XPENDING call (a
\* transport error is printed and ends the pass) and the entries of its
\* reply that line 264 skips
ClaimCall(c, minIdle) ==
    /\ alive[c] /\ pc[c] = "idle"
    /\ \E ok \in BOOLEAN :
         LET reply == IF ok /\ groupExists THEN PendingReply ELSE <<>> IN
         /\ Wanted(reply, minIdle) # <<>>
         /\ scan' = [scan EXCEPT ![c] = Wanted(reply, minIdle)]
         /\ thr' = [thr EXCEPT ![c] = minIdle]
         /\ pc' = [pc EXCEPT ![c] = "scan"]
    /\ UNCHANGED <<stream, lastDelivered, pel, alive, op, batch, cur,
                   yielded, handed, ackLog, race>>
    /\ UNCHANGED <<polls, avars, tvars, kvars, xvars>>

\* where the claim pass goes on after an entry
AfterEntry(c, rest) ==
    /\ scan' = [scan EXCEPT ![c] = rest]
    /\ pc' = [pc EXCEPT ![c] = IF rest = <<>> THEN "idle" ELSE "scan"]
    /\ thr' = [thr EXCEPT ![c] = IF rest = <<>> THEN 0 ELSE @]

\* claim_pending_messages, one xclaim and what follows it (lines 266-277)
ClaimStep(c) ==
    /\ alive[c] /\ pc[c] = "scan" /\ scan[c] # <<>>
    /\ LET id == Head(scan[c])
           rest == Tail(scan[c]) IN
       \E ok \in BOOLEAN :
            IF ~ok
            THEN \* xclaim raised: the except clause ends the pass
                 /\ AfterEntry(c, <<>>)
                 /\ UNCHANGED <<pel, cur, yielded, race>>
            ELSE IF ~XClaimable(id, thr[c])
            THEN \* xclaim returned no record
                 /\ AfterEntry(c, rest)
                 /\ UNCHANGED <<pel, cur, yielded, race>>
            ELSE /\ pel' = [pel EXCEPT ![id] = [owner |-> c, idle |-> 0]]
                 /\ race' = race \cup {[id |-> id, by |-> c, minIdle |-> thr[c]]}
                 /\ IF ParseMessage(id)
                    THEN /\ yielded' = yielded \cup {<<id, c, "claim">>}
                         /\ cur' = [cur EXCEPT ![c] = id]
                         /\ scan' = [scan EXCEPT ![c] = rest]
                         /\ pc' = [pc EXCEPT ![c] = "claimed"]
                         /\ UNCHANGED thr
                    ELSE /\ AfterEntry(c, rest)
                         /\ UNCHANGED <<yielded, cur>>
    /\ UNCHANGED <<stream, lastDelivered, alive, op, batch, handed, ackLog>>
    /\ UNCHANGED <<polls, avars, tvars, kvars, xvars>>

\* the caller of claim_pending_messages holds a claimed record: it may call
\* acknowledge(msg_id), and resumes the generator
ClaimResume(c) ==
    /\ alive[c] /\ pc[c] = "claimed"
    /\ \E doAck \in BOOLEAN :
         IF doAck THEN \E ok \in BOOLEAN : Acknowledge(cur[c], ok)
         ELSE UNCHANGED <<pel, ackLog>>
    /\ pc' = [pc EXCEPT ![c] = IF scan[c] = <<>> THEN "idle" ELSE "scan"]
    /\ thr' = [thr EXCEPT ![c] = IF scan[c] = <<>> THEN 0 ELSE @]
    /\ cur' = [cur EXCEPT ![c] = 0]
    /\ UNCHANGED <<stream, lastDelivered, alive, op, batch, scan,
                   yielded, handed, race>>
    /\ UNCHANGED <<polls, avars, tvars, kvars, xvars>>

\* ------------------------------------------ administration of the group
\* the group after the constructors of the consumers (create_group=True),
\* or, with ex false, before any of them ran
InitAdmin(ex) ==
    /\ groupExists = ex
    /\ createLog = [calls |-> FALSE, outcome |-> "none"]

\* XGROUP CREATE / XGROUP SETID with an id: the last-delivered id that '0'
\* and '$' stand for in a stream of len records
XGroupId(id, len) == IF id = "$" THEN len ELSE 0

\* (mutation of CreateStart: the group is created at '$')
CreateStartLatest(len) == XGroupId("$", len)

\* _create_consumer_group, line 66: id='0'
CreateStart(len) == XGroupId("0", len)

\* _create_consumer_group: xgroup_create(stream, group, id='0',
\* mkstream=True); BUSYGROUP and every other exception is printed
CreateConsumerGroup(c, ok) ==
    /\ alive[c]
    /\ IF ~ok
       THEN /\ createLog' = [calls |-> ~createLog.calls, outcome |-> "error"]
            /\ UNCHANGED <<groupExists, lastDelivered, pel>>
       ELSE IF groupExists
       THEN /\ createLog' = [calls |-> ~createLog.calls, outcome |-> "busygroup"]
            /\ UNCHANGED <<groupExists, lastDelivered, pel>>
       ELSE /\ createLog' = [calls |-> ~createLog.calls, outcome |-> "created"]
            /\ groupExists' = TRUE
            /\ lastDelivered' = CreateStart(Len(stream))
            /\ pel' = <<>>
    /\ UNCHANGED <<stream, alive, pc, op, batch, cur, scan, thr,
                   yielded, handed, ackLog, race, polls>>
    /\ UNCHANGED <<avars, tvars, kvars, hvars, dvars, wvars, mvars, pvars>>

\* the positions that reset_stream_position is called with
Positions == {"0", "$"}

\* reset_stream_position(position): xgroup_setid(stream, group, position);
\* the pending list stays as it is
ResetStreamPosition(c, position, ok) ==
    /\ alive[c]
    /\ lastDelivered' = IF ok /\ groupExists THEN XGroupId(position, Len(stream))
                        ELSE lastDelivered
    /\ UNCHANGED <<stream, pel, alive, pc, op, batch, cur, scan, thr,
                   yielded, handed, ackLog, race, polls>>
    /\ UNCHANGED <<avars, tvars, kvars, gvars, hvars, dvars, wvars, mvars, pvars>>

\* ------------------------------------------- environment of the group
\* the consumer process dies where it stands (one consumer stays alive)
Crash(c) ==
    /\ alive[c]
    /\ \E d \in Consumers \ {c} : alive[d]
    /\ alive' = [alive EXCEPT ![c] = FALSE]
    /\ UNCHANGED <<stream, lastDelivered, pel, pc, op, batch, cur, scan, thr,
                   yielded, handed, ackLog, race>>
    /\ UNCHANGED <<polls, avars, tvars, kvars, xvars>>

\* time passes: every pending entry grows one tick older
Tick ==
    /\ race # {} \/ \E m \in DOMAIN pel : pel[m].idle < MaxIdle
    /\ pel' = [m \in DOMAIN pel |->
                 [pel[m] EXCEPT !.idle = IF @ < MaxIdle THEN @ + 1 ELSE @]]
    /\ race' = {}
    /\ UNCHANGED <<stream, lastDelivered, alive, pc, op, batch, cur, scan, thr,
                   yielded, handed, ackLog>>
    /\ UNCHANGED <<polls, avars, tvars, kvars, xvars>>

\* XADD to the alerts stream by some producer; decodes = its event_data is
\* the JSON text of an object
Publish(limit, decodes) ==
    /\ Len(stream) < limit
    /\ stream' = Append(stream, decodes)
    /\ UNCHANGED <<lastDelivered, pel, alive, pc, op, batch, cur, scan, thr,
                   yielded, handed, ackLog, race>>
    /\ UNCHANGED <<polls, avars, tvars, kvars, xvars>>

\* ------------------------- StreamAlertGenerator, single-consumer mode
\* '$' as the id of an xread: the records appended after the call
Dollar == -1

\* StreamAlertGenerator.__init__ with use_consumer_group=False
InitSimple ==
    /\ genLastId = Dollar
    /\ gpc = "idle"
    /\ gop = "none"
    /\ gfrom = 0
    /\ gupto = 0
    /\ greads = [m \in 1..MaxMsgs |-> 0]
    /\ gdelivered = {}
    /\ gstart = -1

\* XREAD after id: '$' stands for the last id of the stream at the call
XReadStart(id, len) == IF id = Dollar THEN len ELSE id

\* the count of the consume_alerts_simple call of __next__ and of follow
SimpleCount(o) == IF o = "next" THEN NextCount ELSE FollowCount

\* consume_alerts_simple(last_id=self.last_id, ...) called by __next__ or
\* follow: the xread is sent and blocks; when it raises, the except clause
\* ends the generator and the caller's loop calls again
SimpleCall(o) ==
    /\ enabled /\ gpc = "idle"
    /\ \E ok \in BOOLEAN :
         IF ok
         THEN /\ gpc' = "xread"
              /\ gop' = o
              /\ gfrom' = XReadStart(genLastId, Len(stream))
              /\ gupto' = Len(stream)
              /\ gstart' = IF gstart < 0 THEN Len(stream) ELSE gstart
         ELSE UNCHANGED <<gpc, gop, gfrom, gupto, gstart>>
    /\ UNCHANGED <<genLastId, greads, gdelivered>>
    /\ UNCHANGED <<cvars, avars, tvars, kvars, gvars, hvars, dvars, wvars, pvars>>

\* XREAD after id, COUNT n, BLOCK: the records that were there at the call,
\* or else the first record appended while the call blocks
XReadIds(from, upto, len, n) ==
    IF upto > from THEN ReadAfter(from, upto, n) ELSE ReadAfter(from, len, 1)

\* the records of a reply that consume_alerts_simple yields (line 156)
SimpleYields(ids) == SelectSeq(ids, LAMBDA id : ParseMessage(id))

\* the reply of the xread (empty after block_ms without a record) and the
\* loops over it: consume_alerts_simple yields the records that parse, the
\* caller stores the id of each yielded record in self.last_id; __next__
\* returns at the first of them
SimpleReply ==
    /\ gpc = "xread"
    /\ LET ids == XReadIds(gfrom, gupto, Len(stream), SimpleCount(gop))
           good == IF gop = "next" THEN Take(SimpleYields(ids), 1) ELSE SimpleYields(ids) IN
       /\ \A m \in Range(ids) : greads[m] < MaxReads
       /\ greads' = [m \in DOMAIN greads |-> IF m \in Range(ids) THEN greads[m] + 1 ELSE greads[m]]
       /\ gdelivered' = gdelivered \cup Range(good)
       /\ genLastId' = IF good = <<>> THEN genLastId ELSE good[Len(good)]
    /\ gpc' = "idle"
    /\ gop' = "none"
    /\ UNCHANGED <<gfrom, gupto, gstart>>
    /\ UNCHANGED <<cvars, avars, tvars, kvars, gvars, hvars, dvars, wvars, pvars>>

\* ------------------------------------------------------- PfSenseAgent
Actions == {"block", "unblock", "rate_limit", "reboot"}
Ips == {"10.0.0.5", "10.0.0.6"}

\* a record of the command stream; scoreOk = float(threat_score) succeeds
Commands == [action : Actions, ip : Ips, scoreOk : BOOLEAN]

\* what running a PHP script can come to: exit status 0, another exit
\* status, or subprocess.run / open raising
PhpOutcomes == {"ok", "fail", "raise"}

InitAgent ==
    /\ cmds = <<>>
    /\ lastId = 0
    /\ apc = "poll"
    /\ abatch = <<>>
    /\ ackStream = <<>>
    /\ rules = <<>>
    /\ execLog = {}

\* the PHP script of block_ip: array_unshift($config['filter']['rule'], $rule)
BlockScript(rs, ip) == <<ip>> \o rs

\* the PHP script of unblock_ip: unset the first AI rule of the address, break
UnblockScript(rs, ip) ==
    IF \E i \in 1..Len(rs) : rs[i] = ip
    THEN LET k == Min({i \in 1..Len(rs) : rs[i] = ip}) IN
         SubSeq(rs, 1, k - 1) \o SubSeq(rs, k + 1, Len(rs))
    ELSE rs

\* block_ip / unblock_ip: True iff the script ran and exited with status 0;
\* an exception is caught inside and gives False
FirewallReturns(php) == php = "ok"

\* execute_command, lines 233-250: success and error_message after the try
CommandResult(cmd, php) ==
    IF cmd.action \in {"block", "unblock"}
    THEN [success |-> FirewallReturns(php), error_message |-> ""]
    ELSE IF cmd.action = "rate_limit"
    THEN [success |-> TRUE, error_message |-> ""]
    ELSE [success |-> FALSE, error_message |-> "Unknown action: " \o cmd.action]

\* the rule list after the firewall action of the command (a script that
\* did not exit with status 0 is taken to have changed nothing)
RulesAfter(cmd, php) ==
    IF php # "ok" THEN rules
    ELSE IF cmd.action = "block" THEN BlockScript(rules, cmd.ip)
    ELSE IF cmd.action = "unblock" THEN UnblockScript(rules, cmd.ip)
    ELSE rules

\* publish_ack: the record appended to the acks stream
AckRecord(id, res) ==
    [command_id |-> id,
     status |-> IF res.success THEN "success" ELSE "failure",
     error_message |-> res.error_message]

\* (mutation of CommandsAfter: every xread starts at id 0)
CommandsFromStart(last) == ReadAfter(0, Len(cmds), CommandCount)

\* process_commands, lines 196-200: xread({blocks_stream: last_id}, count=10)
CommandsAfter(last) == ReadAfter(last, Len(cmds), CommandCount)

\* process_commands, lines 196-203: xread after last_id, count=10
ReadCommands ==
    /\ apc = "poll"
    /\ \E ok \in BOOLEAN :
         IF ok
         THEN /\ CommandsAfter(lastId) # <<>>
              /\ abatch' = CommandsAfter(lastId)
              /\ apc' = "exec"
         ELSE \* xread raised: printed, time.sleep(1)
              UNCHANGED <<abatch, apc>>
    /\ UNCHANGED <<cmds, lastId, ackStream, rules, execLog>>
    /\ UNCHANGED <<cvars, tvars, kvars, xvars>>

\* process_commands, lines 206-209: execute_command(msg_id, msg_data) and
\* last_id = msg_id; float(threat_score) is evaluated before the try of
\* execute_command, so its ValueError ends the call and the for loops and
\* reaches the except clause of process_commands
ExecuteCommand ==
    /\ apc = "exec" /\ abatch # <<>>
    /\ LET id == Head(abatch)
           cmd == cmds[id] IN
       IF ~cmd.scoreOk
       THEN /\ execLog' = execLog \cup
                 {[id |-> id, fw |-> FALSE, ack |-> FALSE, success |-> FALSE]}
            /\ abatch' = <<>>
            /\ apc' = "poll"
            /\ UNCHANGED <<lastId, ackStream, rules>>
       ELSE \E php \in PhpOutcomes, pub \in BOOLEAN :
            /\ rules' = RulesAfter(cmd, php)
            /\ ackStream' = IF pub THEN Append(ackStream, AckRecord(id, CommandResult(cmd, php)))
                            ELSE ackStream
            /\ execLog' = execLog \cup
                 {[id |-> id, fw |-> cmd.action \in {"block", "unblock"}, ack |-> TRUE,
                   success |-> CommandResult(cmd, php).success]}
            /\ lastId' = id
            /\ abatch' = Tail(abatch)
            /\ apc' = IF Tail(abatch) = <<>> THEN "poll" ELSE "exec"
    /\ UNCHANGED cmds
    /\ UNCHANGED <<cvars, tvars, kvars, xvars>>

\* the agent process ends and is started again: process_commands begins
\* with last_id = '0' (line 191); the streams and the rule list are kept
\* (restarts are followed while the rule list and the acks stream are
\* shorter than MaxRules)
AgentRestart ==
    /\ lastId # 0 \/ apc # "poll"
    /\ Len(rules) < MaxRules /\ Len(ackStream) < MaxRules
    /\ lastId' = 0
    /\ apc' = "poll"
    /\ abatch' = <<>>
    /\ UNCHANGED <<cmds, ackStream, rules, execLog>>
    /\ UNCHANGED <<cvars, tvars, kvars, xvars>>

\* XADD to the command stream by the decision layer
IssueCommand(cmd) ==
    /\ Len(cmds) < MaxCmds
    /\ cmds' = Append(cmds, cmd)
    /\ UNCHANGED <<lastId, apc, abatch, ackStream, rules, execLog>>
    /\ UNCHANGED <<cvars, tvars, kvars, xvars>>

\* ------------------------------------- PfSenseAgent: the tailing loop
\* the lines of eve.json that the loop tells apart:
\*   alert      a JSON object with event_type alert
\*   badalert   the same, with an 'alert' member that is no object (line 127 raises)
\*   flow       a JSON object with another event_type
\*   nonobject  JSON text that is no object (event.get of line 170 raises)
\*   garbage    no JSON text
LineKinds == {"alert", "badalert", "flow", "nonobject", "garbage"}

InitTail ==
    /\ log = <<>>
    /\ tailPos = 0
    /\ tailing = TRUE
    /\ appended = <<>>
    /\ failedPub = {}
    /\ astats = [alerts_published |-> 0, errors |-> 0]

\* (mutation of PublishAlertStats: alerts_published counted before the xadd)
PublishAlertStatsEarly(st, ok) ==
    [alerts_published |-> st.alerts_published + 1,
     errors |-> IF ok THEN st.errors ELSE st.errors + 1]

\* publish_alert, lines 134 and 140: the counters after the call
PublishAlertStats(st, ok) ==
    IF ok THEN [st EXCEPT !.alerts_published = @ + 1]
    ELSE [st EXCEPT !.errors = @ + 1]

\* publish_alert(event) for line i: the message is built (lines 112-130),
\* one xadd is made (line 133); any exception gives False (lines 138-141)
PublishAlert(i, xadd) ==
    LET ok == log[i] = "alert" /\ xadd IN
    /\ appended' = IF ok THEN Append(appended, i) ELSE appended
    /\ failedPub' = IF ok THEN failedPub ELSE failedPub \cup {i}
    /\ astats' = PublishAlertStats(astats, ok)

\* watch_eve_log, one turn of the loop on a line that was read (lines
\* 159-174); an exception other than JSONDecodeError leaves the loop
\* (lines 180-182), and run() then stops the agent
TailStep ==
    /\ tailing /\ tailPos < Len(log)
    /\ LET i == tailPos + 1 IN
       /\ tailPos' = i
       /\ IF log[i] \in {"garbage", "flow"}
          THEN UNCHANGED <<tailing, appended, failedPub, astats>>
          ELSE IF log[i] = "nonobject"
          THEN /\ tailing' = FALSE
               /\ astats' = [astats EXCEPT !.errors = @ + 1]
               /\ UNCHANGED <<appended, failedPub>>
          ELSE /\ \E xadd \in BOOLEAN : PublishAlert(i, xadd)
               /\ UNCHANGED tailing
    /\ UNCHANGED log
    /\ UNCHANGED <<cvars, avars, kvars, xvars>>

\* Suricata writes a line to eve.json
LogWrite(k) ==
    /\ Len(log) < MaxLines
    /\ log' = Append(log, k)
    /\ UNCHANGED <<tailPos, tailing, appended, failedPub, astats>>
    /\ UNCHANGED <<cvars, avars, kvars, xvars>>

\* ------------------ PfSenseAgent: self.stats['errors'] += 1, by thread
\* the statement is a read of the item, an addition and a write of the
\* item; no lock is held, and the interpreter may switch threads between
\* the read and the write
StatsLoad(t) ==
    /\ sreg[t] < 0 /\ scounted < MaxErrors
    /\ sreg' = [sreg EXCEPT ![t] = astats.errors]
    /\ scounted' = scounted + 1
    /\ UNCHANGED <<kpc, karg, klist, ckind, cstats, cret>>
    /\ UNCHANGED <<cvars, avars, tvars, kvars, gvars, hvars, dvars, wvars, mvars>>

StatsStore(t) ==
    /\ sreg[t] >= 0
    /\ astats' = [astats EXCEPT !.errors = sreg[t] + 1]
    /\ sreg' = [sreg EXCEPT ![t] = -1]
    /\ UNCHANGED <<log, tailPos, tailing, appended, failedPub>>
    /\ UNCHANGED <<kpc, karg, klist, scounted, ckind, cstats, cret>>
    /\ UNCHANGED <<cvars, avars, kvars, gvars, hvars, dvars, wvars, mvars>>

\* ------------------------- PfSenseAgent: run(), stats_loop and shutdown
\* the agent inside run(), after its two threads were started (the health
\* record of line 505 is not looked at)
InitHealth ==
    /\ running = TRUE
    /\ mpc = "watch"
    /\ spc = "check"
    /\ health = <<>>
    /\ hcalls = <<>>

\* the turns of stats_loop so far
Beats == Cardinality({i \in 1..Len(hcalls) : hcalls[i].what = "stats"})

\* publish_health / publish_stats, lines 432-433 and 487-488: the counters
\* after the call (the except clause prints)
HealthErrors(st, ok) == st

\* publish_health(status): one xadd to the health stream, inside try/except
PublishHealth(by, status, ok) ==
    /\ health' = IF ok THEN Append(health, status) ELSE health
    /\ hcalls' = Append(hcalls, [by |-> by, what |-> status, ok |-> ok])
    /\ astats' = HealthErrors(astats, ok)

\* stats_loop, line 513: while self.running
StatsCheck ==
    /\ mpc # "exited" /\ spc = "check"
    /\ running => Beats < MaxBeats
    /\ spc' = IF running THEN "stats" ELSE "done"
    /\ UNCHANGED <<running, mpc, health, hcalls>>
    /\ UNCHANGED <<cvars, avars, tvars, kvars, gvars, dvars, wvars, mvars, pvars>>

\* stats_loop, line 514: publish_stats(), whose xadd goes to the stats stream
StatsPublish(ok) ==
    /\ mpc # "exited" /\ spc = "stats"
    /\ hcalls' = Append(hcalls, [by |-> "loop", what |-> "stats", ok |-> ok])
    /\ astats' = HealthErrors(astats, ok)
    /\ spc' = "health"
    /\ UNCHANGED <<running, mpc, health>>
    /\ UNCHANGED <<log, tailPos, tailing, appended, failedPub>>
    /\ UNCHANGED <<cvars, avars, kvars, gvars, dvars, wvars, mvars, pvars>>

\* stats_loop, lines 515-516: publish_health('healthy', ...), time.sleep(30)
StatsHealth(ok) ==
    /\ mpc # "exited" /\ spc = "health"
    /\ PublishHealth("loop", "healthy", ok)
    /\ spc' = "check"
    /\ UNCHANGED <<running, mpc>>
    /\ UNCHANGED <<log, tailPos, tailing, appended, failedPub>>
    /\ UNCHANGED <<cvars, avars, kvars, gvars, dvars, wvars, mvars, pvars>>

\* signal_handler (SIGINT, SIGTERM), lines 92-94, in the main thread while
\* it is in watch_eve_log: running = False, publish_health('shutdown', ...),
\* and sys.exit(0), whose SystemExit leaves watch_eve_log
SignalHandler(ok) ==
    /\ mpc = "watch" /\ tailing
    /\ running' = FALSE
    /\ PublishHealth("signal", "shutdown", ok)
    /\ tailing' = FALSE
    /\ mpc' = "unwind"
    /\ UNCHANGED spc
    /\ UNCHANGED <<log, tailPos, appended, failedPub>>
    /\ UNCHANGED <<cvars, avars, kvars, gvars, dvars, wvars, mvars, pvars>>

\* run, lines 526-528: the finally clause, reached by SystemExit or when
\* watch_eve_log returned
RunFinally(ok) ==
    /\ mpc = "unwind" \/ (mpc = "watch" /\ ~tailing)
    /\ running' = FALSE
    /\ PublishHealth("run", "shutdown", ok)
    /\ mpc' = "return"
    /\ UNCHANGED spc
    /\ UNCHANGED <<log, tailPos, tailing, appended, failedPub>>
    /\ UNCHANGED <<cvars, avars, kvars, gvars, dvars, wvars, mvars, pvars>>

\* run returns and the process ends; its daemon threads end with it
ProcessExit ==
    /\ mpc = "return"
    /\ mpc' = "exited"
    /\ UNCHANGED <<running, spc, health, hcalls>>
    /\ UNCHANGED <<cvars, avars, tvars, kvars, gvars, dvars, wvars, mvars, pvars>>

\* ---------------------------------------------- TrainingDataCollector
\* who calls flush_buffer / _flush_buffer_unsafe: log_classification, the
\* flusher thread, stop(), and a caller after stop()
FlushCallers == {"log", "flusher", "stop", "again"}

\* an enabled collector after __init__ (its flusher thread is started); its
\* buffer_size is MaxBuffer
InitCollector ==
    /\ buffer = <<>>
    /\ disk = <<>>
    /\ stopEvent = FALSE
    /\ fpc = "wait"
    /\ dpc = "run"
    /\ flushLog = [by \in FlushCallers |->
                     [calls |-> FALSE, ok |-> FALSE, before |-> <<>>, ret |-> 0, wrote |-> 0]]
    /\ lateLog = FALSE

\* how the write of _flush_buffer_unsafe can end: it went through; it raised
\* before the decisions file was touched; it raised after the file was
\* appended to (fsync or unlink of the temporary file, lines 239-241)
WriteOutcomes == {"ok", "raise", "raise_late"}

\* the examples logged so far
Logged == Range(buffer) \cup Range(disk)

\* (mutation of BufferAfter: buffer.clear() left out)
BufferKept(buf, w) == buf

\* _flush_buffer_unsafe, lines 246-252: the buffer after the write
BufferAfter(buf, w) == IF w = "ok" THEN <<>> ELSE buf

\* _flush_buffer_unsafe, lines 220-252: what is on disk after the call
DiskAfter(buf, w) == IF w = "raise" THEN disk ELSE disk \o buf

\* _flush_buffer_unsafe, lines 220-221, 246-248 and 250-252: its return value
FlushReturn(buf, w) == IF w = "ok" THEN Len(buf) ELSE 0

\* flush_buffer / _flush_buffer_unsafe under the lock, called by 'by' (the
\* file is kept finite: a write raises late at most once for an example)
FlushBuffer(by, buf, w) ==
    /\ buf = <<>> => w = "ok"
    /\ w = "raise_late" => Range(buf) \cap Range(disk) = {}
    /\ buffer' = BufferAfter(buf, w)
    /\ disk' = DiskAfter(buf, w)
    /\ flushLog' = [flushLog EXCEPT ![by] =
                      [calls |-> ~@.calls, ok |-> w = "ok", before |-> buf,
                       ret |-> FlushReturn(buf, w),
                       wrote |-> Len(DiskAfter(buf, w)) - Len(disk)]]

\* log_classification: the example is appended under the lock and the
\* buffer is flushed when it is full (lines 128-134)
LogClassification(w) ==
    /\ Cardinality(Logged) < MaxExamples
    /\ LET example == Cardinality(Logged) + 1
           buf == Append(buffer, example) IN
       IF Len(buf) >= MaxBuffer
       THEN FlushBuffer("log", buf, w)
       ELSE /\ w = "ok"
            /\ buffer' = buf
            /\ UNCHANGED <<disk, flushLog>>
    /\ lateLog' = (lateLog \/ dpc # "run")
    /\ UNCHANGED <<stopEvent, fpc, dpc>>
    /\ UNCHANGED <<cvars, avars, tvars, kvars, gvars, hvars, wvars, mvars, pvars>>

\* _periodic_flush, line 267: stop_event.wait(flush_interval) timed out
FlusherWake ==
    /\ fpc = "wait" /\ ~stopEvent
    /\ fpc' = "flush"
    /\ UNCHANGED <<buffer, disk, stopEvent, dpc, flushLog, lateLog>>
    /\ UNCHANGED <<cvars, avars, tvars, kvars, gvars, hvars, wvars, mvars, pvars>>

\* _periodic_flush, line 268: flush_buffer()
FlusherFlush(w) ==
    /\ fpc = "flush"
    /\ FlushBuffer("flusher", buffer, w)
    /\ fpc' = "wait"
    /\ UNCHANGED <<stopEvent, dpc, lateLog>>
    /\ UNCHANGED <<cvars, avars, tvars, kvars, gvars, hvars, wvars, mvars, pvars>>

\* _periodic_flush, line 267: the wait returned because the event is set
FlusherExit ==
    /\ fpc = "wait" /\ stopEvent
    /\ fpc' = "done"
    /\ UNCHANGED <<buffer, disk, stopEvent, dpc, flushLog, lateLog>>
    /\ UNCHANGED <<cvars, avars, tvars, kvars, gvars, hvars, wvars, mvars, pvars>>

\* stop, lines 276-278: stop_event.set() and join(timeout=2), which comes
\* back whether or not the flusher has ended
StopSignal ==
    /\ dpc = "run"
    /\ stopEvent' = (stopEvent \/ fpc # "done")
    /\ dpc' = "final"
    /\ UNCHANGED <<buffer, disk, fpc, flushLog, lateLog>>
    /\ UNCHANGED <<cvars, avars, tvars, kvars, gvars, hvars, wvars, mvars, pvars>>

\* stop, line 281: the final flush_buffer()
StopFlush(w) ==
    /\ dpc = "final"
    /\ FlushBuffer("stop", buffer, w)
    /\ dpc' = "stopped"
    /\ UNCHANGED <<stopEvent, fpc, lateLog>>
    /\ UNCHANGED <<cvars, avars, tvars, kvars, gvars, hvars, wvars, mvars, pvars>>

\* flush_buffer() called after stop() returned (the atexit handler of line
\* 54, or the owner)
FlushAgain(w) ==
    /\ dpc = "stopped"
    /\ FlushBuffer("again", buffer, w)
    /\ UNCHANGED <<stopEvent, fpc, dpc, lateLog>>
    /\ UNCHANGED <<cvars, avars, tvars, kvars, gvars, hvars, wvars, mvars, pvars>>

\* ------------------------------------- the event on the wire (JSON)
\* A Python value that json.loads gives is a record [t, v]: t its type and
\* v its value (the text of a str is a sequence of characters, a float is
\* held by its integral part, a dict is a function from keys); a JSON text
\* is a sequence of characters, and the text of an object is "{", its
\* members <<key, text>>, "}".
JsonInt(n) == [t |-> "int", v |-> n]

JsonFloat(n) == [t |-> "float", v |-> n]

JsonBool(b) == [t |-> "bool", v |-> b]

JsonStr(cs) == [t |-> "str", v |-> cs]

JsonNull == [t |-> "null", v |-> 0]

JsonObj(f) == [t |-> "obj", v |-> f]

\* the scalar values of the events that are looked at: numbers, booleans,
\* null, and strings that read like them
Scalars ==
    {JsonInt(0), JsonInt(1), JsonFloat(1), JsonBool(TRUE), JsonBool(FALSE), JsonNull,
     JsonStr(<<"1">>), JsonStr(<<"t", "r", "u", "e">>)}

\* the 'alert' member of an event
AlertMembers == {JsonObj([severity |-> x]) : x \in {JsonInt(1), JsonStr(<<"1">>)}}

\* the alert events of eve.json: event_type, src_port, alert, and for some
\* a member named _stream_metadata
WireEvents ==
    LET base == {[event_type |-> JsonStr(<<"a", "l", "e", "r", "t">>), src_port |-> x, alert |-> a] :
                    x \in Scalars, a \in AlertMembers}
    IN base \cup {[k \in DOMAIN e \cup {"_stream_metadata"} |->
                     IF k = "_stream_metadata" THEN JsonInt(1) ELSE e[k]] : e \in base}

\* (mutation of DumpScalar: the value is written as str(value), in quotes)
DumpScalarAsStr(x) ==
    CASE x.t = "int" -> <<"\"", Str(x.v), "\"">>
      [] x.t = "float" -> <<"\"", Str(x.v), ".", "0", "\"">>
      [] x.t = "bool" -> IF x.v THEN <<"\"", "T", "r", "u", "e", "\"">>
                         ELSE <<"\"", "F", "a", "l", "s", "e", "\"">>
      [] x.t = "null" -> <<"\"", "N", "o", "n", "e", "\"">>
      [] x.t = "str" -> <<"\"">> \o x.v \o <<"\"">>

\* json.dumps of a value that is no container
DumpScalar(x) ==
    CASE x.t = "int" -> <<Str(x.v)>>
      [] x.t = "float" -> <<Str(x.v), ".", "0">>
      [] x.t = "bool" -> IF x.v THEN <<"t", "r", "u", "e">> ELSE <<"f", "a", "l", "s", "e">>
      [] x.t = "null" -> <<"n", "u", "l", "l">>
      [] x.t = "str" -> <<"\"">> \o x.v \o <<"\"">>

\* the keys of a dict in the order of the dict
KeySeq(f) ==
    CHOOSE ks \in [1..Cardinality(DOMAIN f) -> DOMAIN f] : Range(ks) = DOMAIN f

\* json.dumps (publish_alert, line 116)
RECURSIVE JsonDumps(_)
JsonDumps(x) ==
    IF x.t = "obj"
    THEN LET ks == KeySeq(x.v) IN
         <<"{">> \o [i \in 1..Len(ks) |-> <<ks[i], JsonDumps(x.v[ks[i]])>>] \o <<"}">>
    ELSE DumpScalar(x)

\* json.loads of a text that is no object
LoadScalar(text) ==
    IF Head(text) = "\"" THEN JsonStr(SubSeq(text, 2, Len(text) - 1))
    ELSE IF text = <<"t", "r", "u", "e">> THEN JsonBool(TRUE)
    ELSE IF text = <<"f", "a", "l", "s", "e">> THEN JsonBool(FALSE)
    ELSE IF text = <<"n", "u", "l", "l">> THEN JsonNull
    ELSE IF "." \in Range(text) THEN JsonFloat(ParseInt(text[1]))
    ELSE JsonInt(ParseInt(text[1]))

\* json.loads (_parse_message, line 176)
RECURSIVE JsonLoads(_)
JsonLoads(text) ==
    IF Head(text) = "{"
    THEN LET ms == SubSeq(text, 2, Len(text) - 1) IN
         JsonObj([k \in {ms[i][1] : i \in 1..Len(ms)} |->
                    JsonLoads((CHOOSE m \in Range(ms) : m[1] = k)[2])])
    ELSE LoadScalar(text)

\* publish_alert, lines 112-122: the fields of the message that the
\* consumer reads (it reads no other)
WireMessage(event) ==
    [hostname |-> "pfsense", timestamp |-> "t0", event_data |-> JsonDumps(JsonObj(event))]

\* _parse_message, lines 179-183: the value stored under _stream_metadata
StreamMetadata(msg) ==
    JsonObj([hostname |-> msg.hostname, timestamp |-> msg.timestamp, stream_received |-> "t1"])

\* _parse_message, lines 175-185
ParseWire(msg) ==
    LET event == JsonLoads(msg.event_data).v IN
    [k \in DOMAIN event \cup {"_stream_metadata"} |->
       IF k = "_stream_metadata" THEN StreamMetadata(msg) ELSE event[k]]

\* an alert event read from the log; e is the event
InitWire(e) ==
    /\ wevent = e
    /\ wire = <<>>
    /\ wyield = <<>>
    /\ wpc = "line"

\* publish_alert(event): the message is built and appended (xadd)
PublishEvent(ok) ==
    /\ wpc = "line"
    /\ wire' = IF ok THEN <<WireMessage(wevent)>> ELSE wire
    /\ wpc' = IF ok THEN "published" ELSE "failed"
    /\ UNCHANGED <<wevent, wyield>>
    /\ UNCHANGED <<cvars, avars, tvars, kvars, gvars, hvars, dvars, mvars, pvars>>

\* consume_alerts, lines 110-113: _parse_message(msg_data) and the yield
YieldEvent ==
    /\ wpc = "published"
    /\ wyield' = ParseWire(wire[1])
    /\ wpc' = "yielded"
    /\ UNCHANGED <<wevent, wire>>
    /\ UNCHANGED <<cvars, avars, tvars, kvars, gvars, hvars, dvars, mvars, pvars>>

\* -------------------------------------------------------- RedisClient
\* Python's None
None == [kind |-> "None"]

\* a key that does not exist
Absent == [val |-> None, ttl |-> 0]

Exists(k) == k.ttl # 0

\* the one ip of the specifications that follow a single key
OneIp == {"10.0.0.5"}

Ttls == 1..MaxTtl
Windows == 1..MaxTtl
Limits == 0..MaxLimit
Increments == 1..MaxCount

\* a behavioral profile, by its alert_count
Profiles == [alert_count : 1..MaxCount]

\* the JSON text that set_blocked_ip stores, as get_blocked_ip_info decodes it
BlockInfo == [reason |-> "port_scan"]

\* the client after __init__: en = the enabled argument was true, the redis
\* package is there and the first ping went through
InitCache(en) ==
    /\ enabled = en
    /\ blocked = [ip \in Ips |-> Absent]
    /\ activeBlocks = {}
    /\ rateKeys = [k \in Ips \X Windows |-> Absent]
    /\ behavior = [ip \in Ips |-> Absent]
    /\ topIps = [ip \in Ips |-> 0]
    /\ ret = [op |-> "none"]
    /\ blockLog = [ip \in Ips |-> [ttl |-> 0, age |-> 0]]
    /\ rateLog = [k \in Ips \X Windows |-> [calls |-> 0, age |-> 0]]
    /\ behLog = [ip \in Ips |-> [profile |-> None, ttl |-> 0, age |-> 0, whole |-> TRUE]]

\* (mutation of Disabled: the guard of increment_rate_limit returns 0, the
\* count of a key that does not exist)
DisabledZero(name) ==
    CASE name \in {"set_ip_behavior", "set_blocked_ip", "unblock_ip",
                 "increment_ip_count", "is_blocked"} -> FALSE
      [] name \in {"get_ip_behavior", "get_blocked_ip_info"} -> None
      [] name = "get_active_blocks" -> {}
      [] name = "get_top_ips" -> <<>>
      [] name \in {"cleanup_expired_blocks", "get_rate_limit_count",
                  "increment_rate_limit"} -> 0

\* what the operation returns at its "if not self.enabled" guard
Disabled(name) ==
    CASE name \in {"set_ip_behavior", "set_blocked_ip", "unblock_ip",
                 "increment_ip_count", "is_blocked"} -> FALSE
      [] name \in {"get_ip_behavior", "get_blocked_ip_info"} -> None
      [] name = "get_active_blocks" -> {}
      [] name = "get_top_ips" -> <<>>
      [] name \in {"cleanup_expired_blocks", "get_rate_limit_count"} -> 0
      [] name = "increment_rate_limit" -> -1

\* (mutation of OnError: the except clause of is_blocked fails closed)
OnErrorClosed(name) ==
    CASE name \in {"set_ip_behavior", "set_blocked_ip", "unblock_ip",
                 "increment_ip_count"} -> FALSE
      [] name = "is_blocked" -> TRUE
      [] name \in {"get_ip_behavior", "get_blocked_ip_info"} -> None
      [] name = "get_active_blocks" -> {}
      [] name = "get_top_ips" -> <<>>
      [] name \in {"cleanup_expired_blocks", "get_rate_limit_count"} -> 0
      [] name = "increment_rate_limit" -> -1

\* what the operation returns from its "except Exception" clause
OnError(name) ==
    CASE name \in {"set_ip_behavior", "set_blocked_ip", "unblock_ip",
                 "increment_ip_count", "is_blocked"} -> FALSE
      [] name \in {"get_ip_behavior", "get_blocked_ip_info"} -> None
      [] name = "get_active_blocks" -> {}
      [] name = "get_top_ips" -> <<>>
      [] name \in {"cleanup_expired_blocks", "get_rate_limit_count"} -> 0
      [] name = "increment_rate_limit" -> -1

\* the record of a call: ok = no transport command of the call raised,
\* cmds = the transport commands the call issued
Ret(name, ip, arg, ok, n, value) ==
    [op |-> name, ip |-> ip, arg |-> arg, ok |-> ok, cmds |-> n, value |-> value]

\* the call returns at the guard of a disabled client
Skip(name, ip, arg) ==
    /\ ret' = Ret(name, ip, arg, TRUE, 0, Disabled(name))
    /\ UNCHANGED <<blocked, activeBlocks, rateKeys, behavior, topIps,
                   blockLog, rateLog, behLog>>

\* the call of an enabled client went through n commands (f = 0), or its
\* f-th command raised
Result(name, ip, arg, f, n, value) ==
    Ret(name, ip, arg, f = 0, IF f = 0 THEN n ELSE f, IF f = 0 THEN value ELSE OnError(name))

\* (mutation of BlockRecord: the record is written with set, without expiry)
BlockRecordForever(ttl) == [val |-> BlockInfo, ttl |-> -1]

\* set_blocked_ip, line 203: setex(key, ttl, data)
BlockRecord(ttl) == [val |-> BlockInfo, ttl |-> ttl]

\* set_blocked_ip: setex(key, ttl, data), sadd(active_blocks, ip)
SetBlockedIp(ip, ttl, f) ==
    /\ IF ~enabled THEN f = 0 /\ Skip("set_blocked_ip", ip, ttl)
       ELSE /\ blocked' = IF f # 1 THEN [blocked EXCEPT ![ip] = BlockRecord(ttl)]
                          ELSE blocked
            /\ blockLog' = IF f # 1 THEN [blockLog EXCEPT ![ip] = [ttl |-> ttl, age |-> 0]]
                           ELSE blockLog
            /\ activeBlocks' = IF f = 0 THEN activeBlocks \cup {ip} ELSE activeBlocks
            /\ ret' = Result("set_blocked_ip", ip, ttl, f, 2, TRUE)
            /\ UNCHANGED <<rateKeys, behavior, topIps, rateLog, behLog>>
    /\ UNCHANGED enabled
    /\ UNCHANGED <<cvars, avars, tvars, xvars>>

\* (mutation of IsBlockedValue: the index is asked instead of the record)
IsBlockedByIndex(ip) == ip \in activeBlocks

\* is_blocked, line 227: exists(blocked_ip:{ip}) > 0
IsBlockedValue(ip) == Exists(blocked[ip])

IsBlocked(ip, f) ==
    /\ IF ~enabled THEN f = 0 /\ Skip("is_blocked", ip, 0)
       ELSE /\ ret' = Result("is_blocked", ip, 0, f, 1, IsBlockedValue(ip))
            /\ UNCHANGED <<blocked, activeBlocks, rateKeys, behavior, topIps,
                           blockLog, rateLog, behLog>>
    /\ UNCHANGED enabled
    /\ UNCHANGED <<cvars, avars, tvars, xvars>>

\* get_blocked_ip_info: get(key), json.loads
GetBlockedIpInfo(ip, f) ==
    /\ IF ~enabled THEN f = 0 /\ Skip("get_blocked_ip_info", ip, 0)
       ELSE /\ ret' = Result("get_blocked_ip_info", ip, 0, f, 1,
                             IF Exists(blocked[ip]) THEN blocked[ip].val ELSE None)
            /\ UNCHANGED <<blocked, activeBlocks, rateKeys, behavior, topIps,
                           blockLog, rateLog, behLog>>
    /\ UNCHANGED enabled
    /\ UNCHANGED <<cvars, avars, tvars, xvars>>

\* (mutation of IndexAfterUnblock: the srem of unblock_ip left out)
IndexKept(ip) == activeBlocks

\* unblock_ip, line 267: srem(active_blocks, ip)
IndexAfterUnblock(ip) == activeBlocks \ {ip}

\* unblock_ip: delete(key), srem(active_blocks, ip)
UnblockIp(ip, f) ==
    /\ IF ~enabled THEN f = 0 /\ Skip("unblock_ip", ip, 0)
       ELSE /\ blocked' = IF f # 1 THEN [blocked EXCEPT ![ip] = Absent] ELSE blocked
            /\ blockLog' = IF f # 1 THEN [blockLog EXCEPT ![ip] = [ttl |-> 0, age |-> 0]]
                           ELSE blockLog
            /\ activeBlocks' = IF f = 0 THEN IndexAfterUnblock(ip) ELSE activeBlocks
            /\ ret' = Result("unblock_ip", ip, 0, f, 2, TRUE)
            /\ UNCHANGED <<rateKeys, behavior, topIps, rateLog, behLog>>
    /\ UNCHANGED enabled
    /\ UNCHANGED <<cvars, avars, tvars, xvars>>

\* get_active_blocks: list(smembers(active_blocks))
GetActiveBlocks(f) ==
    /\ IF ~enabled THEN f = 0 /\ Skip("get_active_blocks", "", 0)
       ELSE /\ ret' = Result("get_active_blocks", "", 0, f, 1, activeBlocks)
            /\ UNCHANGED <<blocked, activeBlocks, rateKeys, behavior, topIps,
                           blockLog, rateLog, behLog>>
    /\ UNCHANGED enabled
    /\ UNCHANGED <<cvars, avars, tvars, xvars>>

\* (mutation of Stale: the test of line 304 dropped)
StaleAlways(ip) == TRUE

\* cleanup_expired_blocks, line 304: the block key of the ip is gone
Stale(ip) == ~Exists(blocked[ip])

\* cleanup_expired_blocks: get_active_blocks, then exists and srem for the
\* ips of the list.  bad = "none": no command raised; bad = "list": smembers
\* raised inside get_active_blocks, which returns []; bad = an ip: exists or
\* srem raised at that ip, after the ips of done were gone through (the
\* list has the order of the set, which is any order)
CleanupExpiredBlocks(done, bad) ==
    /\ IF ~enabled THEN done = {} /\ bad = "none" /\ Skip("cleanup_expired_blocks", "", {})
       ELSE /\ done \subseteq activeBlocks
            /\ \/ bad = "none" /\ done = activeBlocks
               \/ bad = "list" /\ done = {}
               \/ bad \in activeBlocks \ done
            /\ LET removed == {ip \in done : Stale(ip)} IN
               /\ activeBlocks' = activeBlocks \ removed
               /\ ret' = Ret("cleanup_expired_blocks", "", activeBlocks, bad = "none",
                             1 + Cardinality(done) + Cardinality(removed),
                             IF bad \in {"none", "list"} THEN Cardinality(removed)
                             ELSE OnError("cleanup_expired_blocks"))
            /\ UNCHANGED <<blocked, rateKeys, behavior, topIps, blockLog, rateLog, behLog>>
    /\ UNCHANGED enabled
    /\ UNCHANGED <<cvars, avars, tvars, xvars>>

\* ------------------------- RedisStreamConsumer on a disabled client
\* the redis_client argument of the constructor: a client that is enabled,
\* a client that is disabled, or None
ClientKinds == {"enabled", "disabled", "absent"}

\* __init__, line 38: self.enabled = redis_client and redis_client.enabled
ConsumerEnabled(kind) == kind = "enabled"

\* __init__, lines 38-51: a disabled consumer returns at line 42, before
\* self.stats is assigned
InitConsumer(kind) ==
    /\ ckind = kind
    /\ cstats = ConsumerEnabled(kind)
    /\ cret = [op |-> "none"]

\* the public methods, with an argument each (0 where there is none)
MethodCalls ==
    ({"consume_alerts", "consume_alerts_simple"} \X {NextCount, FollowCount})
    \cup ({"acknowledge"} \X (1..MaxMsgs))
    \cup ({"claim_pending_messages"} \X Thresholds)
    \cup ({"reset_stream_position"} \X {0, Dollar})
    \cup ({"get_pending_messages", "get_stream_info", "get_consumer_group_info",
           "get_stats"} \X {0})

\* what a method returns at its "if not self.enabled" guard
DisabledValue(m) ==
    CASE m \in {"consume_alerts", "consume_alerts_simple", "claim_pending_messages"} -> "no records"
      [] m = "acknowledge" -> "None"
      [] m = "get_pending_messages" -> "[]"
      [] m \in {"get_stream_info", "get_consumer_group_info"} -> "{'enabled': False}"
      [] m = "reset_stream_position" -> "False"
      [] m = "get_stats" -> "stats"

\* the method raises: get_stats has no guard and reads self.stats
\* (lines 342-345), every other method returns at its guard
MethodRaises(m, hasStats) == m = "get_stats" /\ ~hasStats

\* a call of a public method of a consumer whose self.enabled is false
DisabledCall(m, arg) ==
    /\ ~ConsumerEnabled(ckind)
    /\ cret' = [op |-> m, arg |-> arg, raised |-> MethodRaises(m, cstats),
                value |-> IF MethodRaises(m, cstats) THEN "AttributeError" ELSE DisabledValue(m)]
    /\ UNCHANGED <<kpc, karg, klist, sreg, scounted, ckind, cstats>>
    /\ UNCHANGED <<cvars, avars, tvars, kvars, gvars, hvars, dvars, wvars, mvars>>

\* ------------------------- the block operations, command by command
\* callers that share the cache (threads, or processes with a client each):
\* a call is the sequence of its transport commands, and the commands of
\* different callers interleave; the commands go through
Callers == {"k1", "k2"}

\* the threads of the agent that count failures in self.stats: the main
\* thread in publish_alert, the command thread in process_commands and
\* execute_command
StatThreads == {"watch_eve_log", "process_commands"}

InitCallers ==
    /\ kpc = [t \in Callers |-> "idle"]
    /\ karg = [t \in Callers |-> ""]
    /\ klist = [t \in Callers |-> {}]
    /\ sreg = [t \in StatThreads |-> -1]
    /\ scounted = 0
    /\ InitConsumer("enabled")

\* what the block operations leave alone
BlockOpsUnchanged ==
    /\ UNCHANGED <<enabled, rateKeys, behavior, topIps, ret, rateLog, behLog>>
    /\ UNCHANGED <<sreg, scounted, ckind, cstats, cret>>
    /\ UNCHANGED <<cvars, avars, tvars, gvars, hvars, dvars, wvars, mvars>>

\* set_blocked_ip, line 203: setex(key, ttl, data)
SetexStep(t, ip, ttl) ==
    /\ enabled /\ kpc[t] = "idle"
    /\ blocked' = [blocked EXCEPT ![ip] = BlockRecord(ttl)]
    /\ blockLog' = [blockLog EXCEPT ![ip] = [ttl |-> ttl, age |-> 0]]
    /\ kpc' = [kpc EXCEPT ![t] = "sadd"]
    /\ karg' = [karg EXCEPT ![t] = ip]
    /\ UNCHANGED <<activeBlocks, klist>>
    /\ BlockOpsUnchanged

\* set_blocked_ip, line 206: sadd(active_blocks, ip)
SaddStep(t) ==
    /\ kpc[t] = "sadd"
    /\ activeBlocks' = activeBlocks \cup {karg[t]}
    /\ kpc' = [kpc EXCEPT ![t] = "idle"]
    /\ karg' = [karg EXCEPT ![t] = ""]
    /\ UNCHANGED <<blocked, blockLog, klist>>
    /\ BlockOpsUnchanged

\* unblock_ip, line 266: delete(key)
DeleteStep(t, ip) ==
    /\ enabled /\ kpc[t] = "idle"
    /\ blocked' = [blocked EXCEPT ![ip] = Absent]
    /\ blockLog' = [blockLog EXCEPT ![ip] = [ttl |-> 0, age |-> 0]]
    /\ kpc' = [kpc EXCEPT ![t] = "srem"]
    /\ karg' = [karg EXCEPT ![t] = ip]
    /\ UNCHANGED <<activeBlocks, klist>>
    /\ BlockOpsUnchanged

\* where cleanup_expired_blocks goes on with the ips of rest
CleanupNext(t, rest) ==
    /\ klist' = [klist EXCEPT ![t] = rest]
    /\ kpc' = [kpc EXCEPT ![t] = IF rest = {} THEN "idle" ELSE "exists"]
    /\ karg' = [karg EXCEPT ![t] = ""]

\* unblock_ip, line 267, and cleanup_expired_blocks, line 306:
\* srem(active_blocks, ip)
SremStep(t) ==
    /\ kpc[t] \in {"srem", "cleanup_srem"}
    /\ activeBlocks' = activeBlocks \ {karg[t]}
    /\ IF kpc[t] = "srem"
       THEN /\ kpc' = [kpc EXCEPT ![t] = "idle"]
            /\ karg' = [karg EXCEPT ![t] = ""]
            /\ UNCHANGED klist
       ELSE CleanupNext(t, klist[t] \ {karg[t]})
    /\ UNCHANGED <<blocked, blockLog>>
    /\ BlockOpsUnchanged

\* cleanup_expired_blocks, line 299: active_ips = self.get_active_blocks()
CleanupList(t) ==
    /\ enabled /\ kpc[t] = "idle"
    /\ CleanupNext(t, activeBlocks)
    /\ UNCHANGED <<blocked, activeBlocks, blockLog>>
    /\ BlockOpsUnchanged

\* cleanup_expired_blocks, line 304: exists(key) for the next ip of the list
CleanupExists(t) ==
    /\ kpc[t] = "exists"
    /\ \E ip \in klist[t] :
         IF Stale(ip)
         THEN /\ kpc' = [kpc EXCEPT ![t] = "cleanup_srem"]
              /\ karg' = [karg EXCEPT ![t] = ip]
              /\ UNCHANGED klist
         ELSE CleanupNext(t, klist[t] \ {ip})
    /\ UNCHANGED <<blocked, activeBlocks, blockLog>>
    /\ BlockOpsUnchanged

\* increment_ip_count: zincrby(top_ips, count, ip)
IncrementIpCount(ip, n, f) ==
    /\ IF ~enabled THEN f = 0 /\ Skip("increment_ip_count", ip, n)
       ELSE /\ topIps[ip] + n <= MaxScore
            /\ topIps' = IF f = 0 THEN [topIps EXCEPT ![ip] = @ + n] ELSE topIps
            /\ ret' = Result("increment_ip_count", ip, n, f, 1, TRUE)
            /\ UNCHANGED <<blocked, activeBlocks, rateKeys, behavior,
                           blockLog, rateLog, behLog>>
    /\ UNCHANGED enabled
    /\ UNCHANGED <<cvars, avars, tvars, xvars>>

\* the members of top_ips from the highest score down (the order of members
\* of one score is not looked at)
Ranking ==
    LET members == {ip \in Ips : topIps[ip] > 0}
        n == Cardinality(members)
    IN CHOOSE s \in [1..n -> members] :
         /\ \A i, j \in 1..n : i # j => s[i] # s[j]
         /\ \A i, j \in 1..n : i < j => topIps[s[i]] >= topIps[s[j]]

\* ZREVRANGE key start stop: both ends are 0-based and inclusive, a negative
\* end counts from the last member (-1 = the last)
ZRevRange(start, stop) ==
    LET n == Len(Ranking)
        a == IF start < 0 THEN (IF n + start < 0 THEN 0 ELSE n + start) ELSE start
        e == IF stop < 0 THEN n + stop ELSE stop
        b == IF e > n - 1 THEN n - 1 ELSE e
    IN IF a > b THEN <<>> ELSE SubSeq(Ranking, a + 1, b + 1)

\* get_top_ips, lines 403-404: zrevrange(top_ips, 0, limit - 1, withscores)
\* as the dict {ip: int(score)}, in the order of the reply
TopIps(limit) ==
    LET r == ZRevRange(0, limit - 1) IN
    [i \in 1..Len(r) |-> <<r[i], topIps[r[i]]>>]

GetTopIps(limit, f) ==
    /\ IF ~enabled THEN f = 0 /\ Skip("get_top_ips", "", limit)
       ELSE /\ ret' = Result("get_top_ips", "", limit, f, 1, TopIps(limit))
            /\ UNCHANGED <<blocked, activeBlocks, rateKeys, behavior, topIps,
                           blockLog, rateLog, behLog>>
    /\ UNCHANGED enabled
    /\ UNCHANGED <<cvars, avars, tvars, xvars>>

\* increment_rate_limit, lines 431-432: the expiry of the key after the call
RateExpiry(count, old, w) == IF count = 1 THEN w ELSE old

\* increment_rate_limit: incr(key), and expire(key, window) when the count is 1
IncrementRateLimit(ip, w, f) ==
    /\ IF ~enabled THEN f = 0 /\ Skip("increment_rate_limit", ip, w)
       ELSE LET key == <<ip, w>>
                old == rateKeys[key]
                count == (IF Exists(old) THEN old.val ELSE 0) + 1
                ttl == IF Exists(old) THEN old.ttl ELSE -1
                lg == rateLog[key]
            IN /\ count <= MaxCount
               /\ f = 2 => count = 1
               /\ rateKeys' =
                    IF f = 1 THEN rateKeys
                    ELSE [rateKeys EXCEPT ![key] =
                            [val |-> count,
                             ttl |-> IF f = 0 THEN RateExpiry(count, ttl, w) ELSE ttl]]
               /\ rateLog' =
                    IF f = 1 THEN rateLog
                    ELSE [rateLog EXCEPT ![key] =
                            IF lg.calls = 0 \/ lg.age >= w
                            THEN [calls |-> 1, age |-> 0]
                            ELSE [lg EXCEPT !.calls = @ + 1]]
               /\ ret' = Result("increment_rate_limit", ip, w, f,
                                IF count = 1 THEN 2 ELSE 1, count)
               /\ UNCHANGED <<blocked, activeBlocks, behavior, topIps, blockLog, behLog>>
    /\ UNCHANGED enabled
    /\ UNCHANGED <<cvars, avars, tvars, xvars>>

\* get_rate_limit_count: get(key), int(count) if count else 0
GetRateLimitCount(ip, w, f) ==
    /\ IF ~enabled THEN f = 0 /\ Skip("get_rate_limit_count", ip, w)
       ELSE /\ ret' = Result("get_rate_limit_count", ip, w, f, 1,
                             IF Exists(rateKeys[<<ip, w>>]) THEN rateKeys[<<ip, w>>].val ELSE 0)
            /\ UNCHANGED <<blocked, activeBlocks, rateKeys, behavior, topIps,
                           blockLog, rateLog, behLog>>
    /\ UNCHANGED enabled
    /\ UNCHANGED <<cvars, avars, tvars, xvars>>

\* set_ip_behavior, lines 158-165: the hash that hset stores (its values
\* go over the wire as text)
EncodeProfile(p) == [alert_count |-> Str(p.alert_count)]

\* get_ip_behavior, lines 128-135: the dict built from the hash
DecodeProfile(h) == [alert_count |-> ParseInt(h.alert_count)]

\* (mutation of BehaviorExpiry: the expiry is set on the first write only)
BehaviorExpiryOnce(old, ttl) == IF old = -1 THEN ttl ELSE old

\* set_ip_behavior, line 168: expire(key, ttl) after every hset
BehaviorExpiry(old, ttl) == ttl

\* set_ip_behavior: hset(key, mapping), expire(key, ttl)
SetIpBehavior(ip, p, ttl, f) ==
    /\ IF ~enabled THEN f = 0 /\ Skip("set_ip_behavior", ip, ttl)
       ELSE LET old == IF Exists(behavior[ip]) THEN behavior[ip].ttl ELSE -1 IN
            /\ behavior' =
                 IF f = 1 THEN behavior
                 ELSE [behavior EXCEPT ![ip] =
                         [val |-> EncodeProfile(p),
                          ttl |-> IF f = 0 THEN BehaviorExpiry(old, ttl) ELSE old]]
            /\ behLog' =
                 IF f = 1 THEN behLog
                 ELSE IF f = 2 THEN [behLog EXCEPT ![ip].whole = FALSE]
                 ELSE [behLog EXCEPT ![ip] =
                         [profile |-> p, ttl |-> ttl, age |-> 0, whole |-> TRUE]]
            /\ ret' = Result("set_ip_behavior", ip, ttl, f, 2, TRUE)
            /\ UNCHANGED <<blocked, activeBlocks, rateKeys, topIps, blockLog, rateLog>>
    /\ UNCHANGED enabled
    /\ UNCHANGED <<cvars, avars, tvars, xvars>>

\* get_ip_behavior: hgetall(key); None for an empty reply
GetIpBehavior(ip, f) ==
    /\ IF ~enabled THEN f = 0 /\ Skip("get_ip_behavior", ip, 0)
       ELSE /\ ret' = Result("get_ip_behavior", ip, 0, f, 1,
                             IF Exists(behavior[ip]) THEN DecodeProfile(behavior[ip].val)
                             ELSE None)
            /\ UNCHANGED <<blocked, activeBlocks, rateKeys, behavior, topIps,
                           blockLog, rateLog, behLog>>
    /\ UNCHANGED enabled
    /\ UNCHANGED <<cvars, avars, tvars, xvars>>

\* a key one tick later: its remaining life shrinks, and the key is gone
\* when none is left
AgeKey(k) ==
    IF k.ttl > 1 THEN [k EXCEPT !.ttl = @ - 1]
    ELSE IF k.ttl = 1 THEN Absent
    ELSE k

Older(age) == IF age < MaxTtl THEN age + 1 ELSE age

\* one tick of the server's clock
Elapse ==
    /\ blocked' = [ip \in Ips |-> AgeKey(blocked[ip])]
    /\ rateKeys' = [k \in Ips \X Windows |-> AgeKey(rateKeys[k])]
    /\ behavior' = [ip \in Ips |-> AgeKey(behavior[ip])]
    /\ blockLog' = [ip \in Ips |->
                      IF blockLog[ip].ttl > 0 THEN [blockLog[ip] EXCEPT !.age = Older(@)]
                      ELSE blockLog[ip]]
    /\ rateLog' = [k \in Ips \X Windows |->
                     IF rateLog[k].calls > 0 THEN [rateLog[k] EXCEPT !.age = Older(@)]
                     ELSE rateLog[k]]
    /\ behLog' = [ip \in Ips |->
                    IF behLog[ip].ttl > 0 THEN [behLog[ip] EXCEPT !.age = Older(@)]
                    ELSE behLog[ip]]
    /\ ret' = [op |-> "none"]
    /\ UNCHANGED <<enabled, activeBlocks, topIps>>
    /\ UNCHANGED <<cvars, avars, tvars, xvars>>

\* ------------------------------------------------------ specifications
\* the components outside the consumers, the dispatcher, the tailing loop
\* and the cache, after construction
\* the event of the common initial state
OneEvent == CHOOSE e \in WireEvents : "_stream_metadata" \notin DOMAIN e

InitOther ==
    /\ InitAdmin(TRUE) /\ InitHealth /\ InitCollector /\ InitWire(OneEvent)
    /\ InitSimple /\ InitCallers

Init == InitGroup /\ InitAgent /\ InitTail /\ InitCache(TRUE) /\ InitOther

ConsumerLoop(c) ==
    \/ NextCall(c)
    \/ FollowCall(c)
    \/ ConsumeStep(c)
    \/ NextAck(c)
    \/ NextReturn(c)
    \/ FollowAck(c)

Reclaim(c, ts) ==
    \/ \E t \in ts : ClaimCall(c, t)
    \/ ClaimStep(c)
    \/ ClaimResume(c)

\* the read path alone: two consumers of one group and a producer
NextRead ==
    \/ \E c \in Consumers : ConsumerLoop(c)
    \/ \E d \in BOOLEAN : Publish(MaxMsgs, d)

SpecRead == Init /\ [][NextRead]_vars

\* the read path, reclaim passes with a positive threshold and time, no crash
NextGroup ==
    \/ \E c \in Consumers : ConsumerLoop(c)
    \/ \E c \in Consumers : Reclaim(c, Thresholds \ {0})
    \/ \E d \in BOOLEAN : Publish(MaxReclaimMsgs, d)
    \/ Tick

SpecGroup == Init /\ [][NextGroup]_vars

\* the same with reclaim passes of any threshold, 0 included
NextGroupAny ==
    \/ \E c \in Consumers : ConsumerLoop(c)
    \/ \E c \in Consumers : Reclaim(c, Thresholds)
    \/ \E d \in BOOLEAN : Publish(MaxReclaimMsgs, d)
    \/ Tick

SpecGroupAny == Init /\ [][NextGroupAny]_vars

\* the consumers as the repository runs them, with crashes: a running
\* consumer goes on calling __next__ or follow (while True), also when its
\* reads come back empty, and time passes; claim_pending_messages is called
\* by no code of the repository, so no reclaim pass ever runs.
GeneratorLoop(c) == ConsumerLoop(c) \/ EmptyPoll(c)

NextDeployed ==
    \/ \E c \in Consumers : GeneratorLoop(c)
    \/ \E c \in Consumers : Crash(c)
    \/ \E d \in BOOLEAN : Publish(MaxMsgs, d)
    \/ Tick

FairSpec ==
    /\ Init
    /\ [][NextDeployed]_vars
    /\ \A c \in Consumers : WF_vars(GeneratorLoop(c))
    /\ WF_vars(Tick)

\* the dispatcher and the decision layer that issues commands
NextAgent ==
    \/ ReadCommands
    \/ ExecuteCommand
    \/ \E cmd \in Commands : IssueCommand(cmd)

AgentSpec == Init /\ [][NextAgent]_vars

\* a pending list longer than one xpending_range reply: n records delivered
\* to c1 and not acknowledged, of which the first, the last or both are idle
InitScan ==
    /\ \E n \in (XPendingCount - 1)..(XPendingCount + 1) :
       \E old \in {{1}, {n}, {1, n}} :
         /\ stream = [i \in 1..n |-> TRUE]
         /\ lastDelivered = n
         /\ pel = [i \in 1..n |-> [owner |-> "c1", idle |-> IF i \in old THEN MaxIdle ELSE 0]]
    /\ alive = [c \in Consumers |-> TRUE]
    /\ pc = [c \in Consumers |-> "idle"]
    /\ op = [c \in Consumers |-> "none"]
    /\ batch = [c \in Consumers |-> <<>>]
    /\ cur = [c \in Consumers |-> 0]
    /\ scan = [c \in Consumers |-> <<>>]
    /\ thr = [c \in Consumers |-> 0]
    /\ yielded = {}
    /\ handed = {}
    /\ ackLog = {}
    /\ race = {}
    /\ polls = [c \in Consumers |-> FALSE]
    /\ InitAgent
    /\ InitTail
    /\ InitCache(TRUE)
    /\ InitOther

\* reclaim passes with a positive threshold over that pending list
NextScan == \E c \in Consumers : Reclaim(c, Thresholds \ {0})

ScanSpec == InitScan /\ [][NextScan]_vars

\* the tailing loop and Suricata writing the log
NextTail ==
    \/ TailStep
    \/ \E k \in LineKinds : LogWrite(k)

TailSpec == Init /\ [][NextTail]_vars

\* the loop goes on reading while it runs and lines are there (while self.running)
TailFairSpec == Init /\ [][NextTail]_vars /\ WF_vars(TailStep)

\* the block records and their index, with time
NextBlock ==
    \/ \E ip \in Ips, ttl \in Ttls, f \in 0..2 : SetBlockedIp(ip, ttl, f)
    \/ \E ip \in Ips, f \in 0..1 : IsBlocked(ip, f)
    \/ \E ip \in Ips, f \in 0..1 : GetBlockedIpInfo(ip, f)
    \/ \E ip \in Ips, f \in 0..2 : UnblockIp(ip, f)
    \/ \E f \in 0..1 : GetActiveBlocks(f)
    \/ \E done \in SUBSET Ips, bad \in {"none", "list"} \cup Ips : CleanupExpiredBlocks(done, bad)
    \/ Elapse

BlockSpec == Init /\ [][NextBlock]_vars

\* the rate counters of one ip, with time
NextRate ==
    \/ \E ip \in OneIp, w \in Windows, f \in 0..2 : IncrementRateLimit(ip, w, f)
    \/ \E ip \in OneIp, w \in Windows, f \in 0..1 : GetRateLimitCount(ip, w, f)
    \/ Elapse

RateSpec == Init /\ [][NextRate]_vars

\* the behavioral profile of one ip, with time
NextBehavior ==
    \/ \E ip \in OneIp, p \in Profiles, ttl \in Ttls, f \in 0..2 : SetIpBehavior(ip, p, ttl, f)
    \/ \E ip \in OneIp, f \in 0..1 : GetIpBehavior(ip, f)
    \/ Elapse

BehaviorSpec == Init /\ [][NextBehavior]_vars

\* the ranking of sources
NextTop ==
    \/ \E ip \in Ips, n \in Increments, f \in 0..1 : IncrementIpCount(ip, n, f)
    \/ \E limit \in Limits, f \in 0..1 : GetTopIps(limit, f)

TopSpec == Init /\ [][NextTop]_vars

\* a client that came out of __init__ enabled or disabled, and every
\* operation called on it for one ip, with the longest ttl and window
InitClient ==
    InitGroup /\ InitAgent /\ InitTail /\ InitOther /\ \E en \in BOOLEAN : InitCache(en)

NextCache ==
    \/ \E ip \in OneIp, f \in 0..2 : SetBlockedIp(ip, MaxTtl, f)
    \/ \E ip \in OneIp, f \in 0..1 : IsBlocked(ip, f)
    \/ \E ip \in OneIp, f \in 0..1 : GetBlockedIpInfo(ip, f)
    \/ \E ip \in OneIp, f \in 0..2 : UnblockIp(ip, f)
    \/ \E f \in 0..1 : GetActiveBlocks(f)
    \/ \E done \in SUBSET OneIp, bad \in {"none", "list"} \cup OneIp : CleanupExpiredBlocks(done, bad)
    \/ \E ip \in OneIp, f \in 0..1 : IncrementIpCount(ip, 1, f)
    \/ \E limit \in Limits, f \in 0..1 : GetTopIps(limit, f)
    \/ \E ip \in OneIp, f \in 0..2 : IncrementRateLimit(ip, MaxTtl, f)
    \/ \E ip \in OneIp, f \in 0..1 : GetRateLimitCount(ip, MaxTtl, f)
    \/ \E ip \in OneIp, p \in Profiles, f \in 0..2 : SetIpBehavior(ip, p, MaxTtl, f)
    \/ \E ip \in OneIp, f \in 0..1 : GetIpBehavior(ip, f)

CacheSpec == InitClient /\ [][NextCache]_vars

\* consumers that call _create_consumer_group on a stream whose group is
\* not there yet, read, and a producer
InitCreate ==
    /\ InitGroup /\ InitAgent /\ InitTail /\ InitCache(TRUE)
    /\ InitAdmin(FALSE) /\ InitHealth /\ InitCollector /\ InitWire(OneEvent)
    /\ InitSimple /\ InitCallers

NextCreate ==
    \/ \E c \in Consumers, ok \in BOOLEAN : CreateConsumerGroup(c, ok)
    \/ \E c \in Consumers : ConsumerLoop(c)
    \/ \E d \in BOOLEAN : Publish(MaxMsgs, d)

CreateSpec == InitCreate /\ [][NextCreate]_vars

\* the agent's main thread in the tailing loop (on alert lines, and on
\* lines that end the loop), its stats_loop thread, and the ways run() ends
NextHealth ==
    \/ StatsCheck
    \/ \E ok \in BOOLEAN : StatsPublish(ok)
    \/ \E ok \in BOOLEAN : StatsHealth(ok)
    \/ \E ok \in BOOLEAN : SignalHandler(ok)
    \/ \E ok \in BOOLEAN : RunFinally(ok)
    \/ ProcessExit
    \/ TailStep
    \/ \E k \in {"alert", "nonobject"} : LogWrite(k)

HealthSpec == Init /\ [][NextHealth]_vars

\* the collector, its producer, its flusher thread and its shutdown
NextCollector ==
    \/ \E w \in WriteOutcomes : LogClassification(w)
    \/ FlusherWake
    \/ \E w \in WriteOutcomes : FlusherFlush(w)
    \/ FlusherExit
    \/ StopSignal
    \/ \E w \in WriteOutcomes : StopFlush(w)
    \/ \E w \in WriteOutcomes : FlushAgain(w)

CollectorSpec == Init /\ [][NextCollector]_vars

\* an alert event of the log on its way from the agent to the pipeline
InitEvent ==
    /\ InitGroup /\ InitAgent /\ InitTail /\ InitCache(TRUE)
    /\ InitAdmin(TRUE) /\ InitHealth /\ InitCollector /\ InitSimple /\ InitCallers
    /\ \E e \in WireEvents : InitWire(e)

NextWire ==
    \/ \E ok \in BOOLEAN : PublishEvent(ok)
    \/ YieldEvent

WireSpec == InitEvent /\ [][NextWire]_vars

\* the dispatcher on block and unblock commands for one ip, the decision
\* layer that writes the block record of that ip, and time
FirewallCommands == {cmd \in Commands : cmd.ip \in OneIp /\ cmd.action \in {"block", "unblock"}}

NextFirewall ==
    \/ ReadCommands
    \/ ExecuteCommand
    \/ \E cmd \in FirewallCommands : IssueCommand(cmd)
    \/ \E ip \in OneIp, ttl \in Ttls, f \in 0..2 : SetBlockedIp(ip, ttl, f)
    \/ Elapse

FirewallSpec == Init /\ [][NextFirewall]_vars

\* the operations of RedisStreamConsumer that reach the group: reads,
\* acknowledgements, reclaim passes, reset_stream_position
NextOffset ==
    \/ \E c \in Consumers : ConsumerLoop(c)
    \/ \E c \in Consumers : Reclaim(c, Thresholds \ {0})
    \/ \E c \in Consumers, position \in Positions, ok \in BOOLEAN :
          ResetStreamPosition(c, position, ok)
    \/ \E d \in BOOLEAN : Publish(MaxReclaimMsgs, d)
    \/ Tick

OffsetSpec == Init /\ [][NextOffset]_vars

\* a single-instance deployment: the generator in single-consumer mode and
\* a producer
NextSimple ==
    \/ SimpleCall("next")
    \/ SimpleCall("follow")
    \/ SimpleReply
    \/ \E d \in BOOLEAN : Publish(MaxMsgs, d)

SimpleSpec == Init /\ [][NextSimple]_vars

\* the dispatcher on a firewall whose configuration already holds AI block
\* rules of the address, written by commands of an earlier run of the agent
\* (config.xml outlives the agent process)
InitRules ==
    /\ InitGroup /\ InitTail /\ InitCache(TRUE) /\ InitOther
    /\ cmds = <<>>
    /\ lastId = 0
    /\ apc = "poll"
    /\ abatch = <<>>
    /\ ackStream = <<>>
    /\ \E n \in 0..MaxRules : \E ip \in OneIp : rules = [i \in 1..n |-> ip]
    /\ execLog = {}

NextRules ==
    \/ ReadCommands
    \/ ExecuteCommand
    \/ \E cmd \in FirewallCommands : IssueCommand(cmd)

RulesSpec == InitRules /\ [][NextRules]_vars

\* the dispatcher thread keeps running and the transport stays reachable:
\* the loop of process_commands goes on polling and executing
AgentFairSpec ==
    Init /\ [][NextAgent]_vars /\ WF_vars(ReadCommands) /\ WF_vars(ExecuteCommand)

\* the dispatcher over restarts of the agent
NextRestart ==
    \/ ReadCommands
    \/ ExecuteCommand
    \/ AgentRestart
    \/ \E cmd \in FirewallCommands : IssueCommand(cmd)

RestartSpec == Init /\ [][NextRestart]_vars

\* two callers of the block operations on one ip, command by command, and
\* the expiry of the record
NextCallers ==
    \/ \E t \in Callers, ip \in OneIp, ttl \in Ttls : SetexStep(t, ip, ttl)
    \/ \E t \in Callers : SaddStep(t)
    \/ \E t \in Callers, ip \in OneIp : DeleteStep(t, ip)
    \/ \E t \in Callers : SremStep(t)
    \/ \E t \in Callers : CleanupList(t)
    \/ \E t \in Callers : CleanupExists(t)
    \/ Elapse

CallersSpec == Init /\ [][NextCallers]_vars

\* the two threads of the agent counting failures
NextCounters ==
    \/ \E t \in StatThreads : StatsLoad(t)
    \/ \E t \in StatThreads : StatsStore(t)

CountersSpec == Init /\ [][NextCounters]_vars

\* a consumer built on a disabled client or on none, its methods called in
\* any order while producers append to the stream
InitInert ==
    /\ InitGroup /\ InitAgent /\ InitTail /\ InitCache(TRUE)
    /\ InitAdmin(TRUE) /\ InitHealth /\ InitCollector /\ InitWire(OneEvent) /\ InitSimple
    /\ kpc = [t \in Callers |-> "idle"]
    /\ karg = [t \in Callers |-> ""]
    /\ klist = [t \in Callers |-> {}]
    /\ sreg = [t \in StatThreads |-> -1]
    /\ scounted = 0
    /\ \E kind \in ClientKinds \ {"enabled"} : InitConsumer(kind)

NextInert ==
    \/ \E c \in MethodCalls : DisabledCall(c[1], c[2])
    \/ \E d \in BOOLEAN : Publish(MaxMsgs, d)

InertSpec == InitInert /\ [][NextInert]_vars

\* ============================================================== claims
Published == 1..Len(stream)

\* the record was delivered by a group read and its batch has moved past it
Processed(m) == m <= lastDelivered /\ \A c \in Consumers : m \notin Range(batch[c])

YieldersOf(m) == {y[2] : y \in {z \in yielded : z[1] = m}}

ReadYieldersOf(m) == {y[2] : y \in {z \in yielded : z[1] = m /\ z[3] = "read"}}

\* C1 as stated: with no consumer crash, every record of the alerts stream
\* is yielded by exactly one consumer: never by two, and, once its batch has
\* moved past it, not by none.
C1_YieldedByExactlyOne ==
    \A m \in Published :
        /\ Cardinality(YieldersOf(m)) <= 1
        /\ Processed(m) /\ stream[m] => Cardinality(YieldersOf(m)) = 1

\* C1 amended: with no consumer crash, every record that decodes is yielded
\* by consume_alerts to exactly one consumer, once (it is in one batch only
\* and is not yielded again by a read); a reclaim pass may yield it again.
C1_ReadYieldsExactlyOne ==
    /\ \A m \in Published :
        /\ Cardinality(ReadYieldersOf(m)) <= 1
        /\ Processed(m) /\ stream[m] => Cardinality(ReadYieldersOf(m)) = 1
    /\ \A c \in Consumers : \A m \in Range(batch[c]) :
        /\ ReadYieldersOf(m) = {}
        /\ \A d \in Consumers \ {c} : m \notin Range(batch[d])

\* a record yielded by a read to one consumer and by a reclaim pass to the other
C1_Witness ==
    \E m \in Published : \E c \in Consumers : \E d \in Consumers \ {c} :
        /\ ReadYieldersOf(m) = {c}
        /\ <<m, d, "claim">> \in yielded
        /\ alive[c] /\ alive[d]

StalePending(m) == m \in DOMAIN pel /\ ~alive[pel[m].owner]

\* C2 as stated: a record pending with a consumer that crashed before
\* acknowledging it is eventually delivered again, to a live consumer.
C2_CrashedRecordRedelivered ==
    \A m \in 1..MaxMsgs :
        StalePending(m) ~> (m \in DOMAIN pel /\ alive[pel[m].owner])

\* C3 as stated: in consumer-group mode acknowledge(msg_id) is never called
\* on a decoded record before the record was returned or yielded to the
\* pipeline.
C3_AckOnlyAfterHandoff ==
    \A a \in ackLog : stream[a[1]] => a[1] \in handed

\* C4: consume_alerts yields only records that decode; on a record of a
\* batch that fails to decode acknowledge(msg_id) is called at once (the
\* record leaves the pending list when its XACK goes through; a transport
\* error of the XACK is printed inside acknowledge), the record is never
\* yielded, and the consumer stays in the loop while records of the batch
\* remain.
C4_UndecodableAcknowledgedAndSkipped ==
    /\ \A y \in yielded : stream[y[1]]
    /\ \A m \in Published : ~stream[m] /\ Processed(m) =>
          /\ \E ok \in BOOLEAN : <<m, ok>> \in ackLog
          /\ <<m, TRUE>> \in ackLog => m \notin DOMAIN pel
    /\ \A c \in Consumers : batch[c] # <<>> => pc[c] \in {"consume", "resume"}

\* an undecodable first record was acknowledged and the consumer goes on
\* to yield the record after it
C4_Witness ==
    \E c \in Consumers :
        /\ Len(stream) >= 2 /\ ~stream[1] /\ stream[2]
        /\ <<1, TRUE>> \in ackLog /\ 1 \notin DOMAIN pel
        /\ <<2, c, "read">> \in yielded
        /\ op[c] = "follow" /\ pc[c] = "resume"

\* C5 as stated: of the consumers whose reclaim passes claim the same record
\* at the same time, exactly one is given the record and yields it.
C5_OneClaimerPerRace ==
    \A r \in race : \A q \in race : r.id = q.id => r.by = q.by

\* C5 amended: of the reclaim passes with a positive min_idle_time_ms whose
\* xclaim calls on one record fall within the same instant, at most one is
\* given the record; it then owns the record, whose idle time restarts, and
\* is yielded it if it decodes.  (With min_idle_time_ms = 0 every pass is
\* given the record.)
C5_OnePositiveClaimerPerRace ==
    /\ \A r \in race : \A q \in race :
          r.id = q.id /\ r.by # q.by => r.minIdle = 0 \/ q.minIdle = 0
    /\ \A r \in race :
          /\ stream[r.id] => <<r.id, r.by, "claim">> \in yielded
          /\ (r.id \in DOMAIN pel /\ \A q \in race : q.id = r.id => q.by = r.by) =>
                pel[r.id].owner = r.by /\ pel[r.id].idle = 0

\* one pass was given the record and the other, which also found it idle,
\* is about to call xclaim on it
C5_Witness ==
    \E r \in race : \E c \in Consumers \ {r.by} :
        /\ r.minIdle > 0
        /\ pc[c] = "scan" /\ thr[c] > 0 /\ Head(scan[c]) = r.id
        /\ ~XClaimable(r.id, thr[c])

\* C6 as stated: a reclaim pass goes on to claim every pending entry that
\* has been idle for at least its threshold, however many entries are
\* pending.
C6_PassClaimsEveryIdleEntry ==
    [][\A c \in Consumers :
         pc[c] = "idle" /\ pc'[c] = "scan" =>
            \A m \in DOMAIN pel : pel[m].idle >= thr'[c] => m \in Range(scan'[c])]_vars

\* C7 as stated: the ack published for a command whose firewall action
\* failed carries status failure and a non-empty error_message.
C7_FailureAckHasMessage ==
    \A i \in 1..Len(ackStream) :
        cmds[ackStream[i].command_id].action \in {"block", "unblock"}
          /\ ackStream[i].status = "failure"
        => ackStream[i].error_message # ""

\* C8 as stated: every invocation of execute_command, whatever the fields of
\* the record, makes an attempt to publish an ack.
C8_EveryInvocationAttemptsAck ==
    \A e \in execLog : e.ack

\* C9 as stated: every command whose action is unknown is executed without
\* a firewall action and is followed by the attempt to publish its ack.
C9_UnknownActionAcked ==
    \A e \in execLog :
        cmds[e.id].action \notin {"block", "unblock", "rate_limit"} => ~e.fw /\ e.ack

\* C10 as stated: however often an address was blocked, the rule list holds
\* at most one block rule for it.
C10_BlockTwiceOneRule ==
    \A ip \in Ips : Cardinality({i \in 1..Len(rules) : rules[i] = ip}) <= 1

\* a block record was written for the ip, was not deleted since, and its
\* ttl has not elapsed since the write
BlockRecordLive(ip) == blockLog[ip].ttl > 0 /\ blockLog[ip].age < blockLog[ip].ttl

\* C11: is_blocked(ip), when its transport command goes through, returns
\* true exactly while an unexpired block record for ip exists; once the ttl
\* given to set_blocked_ip has elapsed it returns false, also while the
\* active_blocks index still lists ip.
C11_IsBlockedWhileRecordLive ==
    ret.op = "is_blocked" /\ ret.ok => ret.value = BlockRecordLive(ret.ip)

\* is_blocked returned false for an ip whose record has expired and which
\* the index still lists
C11_Witness ==
    /\ ret.op = "is_blocked" /\ ret.ok /\ ret.value = FALSE
    /\ ret.ip \in activeBlocks
    /\ blockLog[ret.ip].ttl > 0 /\ blockLog[ret.ip].age >= blockLog[ret.ip].ttl

\* C12: a cleanup_expired_blocks that completes (no transport command of it
\* raised) has removed from the active_blocks index exactly the ips that
\* have no live block record and returns the number removed: the index then
\* lists no ip whose record has expired and still lists every ip whose
\* record is live.
C12_CleanupReconcilesIndex ==
    ret.op = "cleanup_expired_blocks" /\ ret.ok =>
        /\ activeBlocks = {ip \in ret.arg : BlockRecordLive(ip)}
        /\ ret.value = Cardinality(ret.arg \ activeBlocks)

\* a cleanup removed the ip whose record had expired and kept the ip whose
\* record is live
C12_Witness ==
    /\ ret.op = "cleanup_expired_blocks" /\ ret.ok /\ ret.value = 1
    /\ Cardinality(ret.arg) = 2
    /\ \E ip \in activeBlocks : BlockRecordLive(ip)

\* C13 as stated: the calls of increment_rate_limit(ip, w) that return a
\* count return 1, 2, 3, ... within one window, and the first call after
\* the window has elapsed returns 1 again.
C13_CountsWithinFixedWindow ==
    ret.op = "increment_rate_limit" /\ ret.ok =>
        ret.value = rateLog[<<ret.ip, ret.arg>>].calls

\* the values that the claims name as the no-op and failure values
FailOpen(r) ==
    /\ r.op \in {"set_ip_behavior", "set_blocked_ip", "unblock_ip",
                 "increment_ip_count", "is_blocked"} => r.value = FALSE
    /\ r.op \in {"get_ip_behavior", "get_blocked_ip_info"} => r.value = None
    /\ r.op = "get_active_blocks" => r.value = {}
    /\ r.op = "get_top_ips" => r.value = <<>>
    /\ r.op \in {"cleanup_expired_blocks", "get_rate_limit_count"} => r.value = 0
    /\ r.op = "increment_rate_limit" => r.value = -1

\* C14: with the cache disabled, every operation returns its no-op value
\* (False for writes and is_blocked, None for lookups, empty for
\* enumerations, 0 for counts and cleanup, -1 for increment_rate_limit) and
\* issues no transport command, after any sequence of calls; no key exists.
C14_DisabledReturnsNoOp ==
    ~enabled =>
        /\ ret.op # "none" => ret.cmds = 0 /\ FailOpen(ret)
        /\ \A ip \in Ips : ~Exists(blocked[ip]) /\ ~Exists(behavior[ip]) /\ topIps[ip] = 0
        /\ \A k \in Ips \X Windows : ~Exists(rateKeys[k])
        /\ activeBlocks = {}

\* a disabled client was asked to count a request
C14_Witness ==
    ~enabled /\ ret.op = "increment_rate_limit" /\ ret.value = -1

\* C15: when the cache is enabled and a transport command of an operation
\* raises, the operation returns its failure value to the caller.
C15_TransportFailureFailsOpen ==
    enabled /\ ret.op # "none" /\ ~ret.ok => FailOpen(ret)

\* set_blocked_ip returned False because sadd raised, after setex had
\* written the record
C15_Witness ==
    /\ enabled /\ ret.op = "set_blocked_ip" /\ ~ret.ok /\ ret.cmds = 2
    /\ Exists(blocked[ret.ip]) /\ ret.ip \notin activeBlocks

\* C16: when the xadd of publish_alert fails, the call returns False (the
\* line joins failedPub), errors grows by exactly one, alerts_published
\* stays, nothing is appended, and the alert of that line is never in the
\* stream later.
C16_FailedAppendCountsOneError ==
    /\ [][\A i \in 1..Len(log) :
            log[i] = "alert" /\ i \in failedPub' /\ i \notin failedPub =>
               /\ astats'.errors = astats.errors + 1
               /\ astats'.alerts_published = astats.alerts_published
               /\ appended' = appended]_vars
    /\ [](\A i \in failedPub : i \notin Range(appended))

\* the xadd of an alert failed and a later alert was appended
C16_Witness ==
    \E i \in failedPub : \E j \in Range(appended) :
        log[i] = "alert" /\ j > i /\ astats.errors = 1 /\ astats.alerts_published = 1

\* C17 as stated: only lines that are events of type alert are appended,
\* and for every such line written to the log the loop comes to call
\* publish_alert, which appends its record (or fails fast).
C17_AppendedIffAlert ==
    /\ [](\A r \in Range(appended) : log[r] = "alert")
    /\ \A i \in 1..MaxLines :
          (i <= Len(log) /\ log[i] = "alert") ~> (i \in Range(appended) \/ i \in failedPub)

\* C18: within one run of process_commands no command record has two acks
\* in the acks stream.
C18_AtMostOneAckPerCommand ==
    \A i, j \in 1..Len(ackStream) :
        ackStream[i].command_id = ackStream[j].command_id => i = j

\* every command of the stream was executed and acknowledged and the loop
\* polls again
C18_Witness ==
    /\ Len(cmds) >= 2 /\ Len(ackStream) = Len(cmds)
    /\ lastId = Len(cmds) /\ apc = "poll"

\* C19: after a successful set_ip_behavior(ip, profile, ttl) that no hset
\* of a failed set_ip_behavior has followed, get_ip_behavior(ip) returns
\* that profile until ttl after the write and None afterwards.
C19_ProfileUntilTtlAfterLastWrite ==
    ret.op = "get_ip_behavior" /\ ret.ok /\ behLog[ret.ip].whole =>
        ret.value = IF behLog[ret.ip].ttl > 0 /\ behLog[ret.ip].age < behLog[ret.ip].ttl
                    THEN behLog[ret.ip].profile
                    ELSE None

\* the profile was read back some time after its last write and before
\* its ttl was over
C19_Witness ==
    /\ ret.op = "get_ip_behavior" /\ ret.ok /\ behLog[ret.ip].whole
    /\ behLog[ret.ip].age > 0
    /\ ret.value = behLog[ret.ip].profile

\* C20 as stated: get_top_ips(limit) returns at most limit sources, those
\* with the highest counters, in descending order of counter, for every
\* limit >= 0.
C20_TopIpsAtMostLimit ==
    ret.op = "get_top_ips" /\ ret.ok =>
        LET v == ret.value
            listed == {v[i][1] : i \in 1..Len(v)}
        IN /\ Len(v) <= ret.arg
           /\ \A i \in 1..Len(v) : v[i][2] = topIps[v[i][1]] /\ v[i][2] > 0
           /\ \A i, j \in 1..Len(v) : i < j => v[i][2] >= v[j][2]
           /\ \A ip \in Ips \ listed : topIps[ip] > 0 =>
                 /\ Len(v) = ret.arg
                 /\ \A i \in 1..Len(v) : v[i][2] >= topIps[ip]

\* C21: _create_consumer_group on a group that exists comes back without an
\* exception (BUSYGROUP is caught) and leaves the group's last-delivered id
\* and pending list as they were; a group that it creates has last-delivered
\* id 0, so its first read delivers the first record of the stream, and an
\* empty pending list.
C21_CreateGroupIdempotent ==
    [][createLog' # createLog =>
         /\ groupExists =>
               /\ groupExists' /\ lastDelivered' = lastDelivered /\ pel' = pel
               /\ createLog'.outcome \in {"busygroup", "error"}
         /\ ~groupExists /\ groupExists' =>
               /\ createLog'.outcome = "created"
               /\ lastDelivered' = 0 /\ pel' = <<>>
               /\ Len(stream) > 0 => XReadGroupIds(NextCount)' = <<1>>]_vars

\* the group was created on a stream that had records, records were
\* delivered, and a second _create_consumer_group met BUSYGROUP
C21_Witness ==
    /\ createLog.outcome = "busygroup"
    /\ lastDelivered > 0 /\ pel # <<>>

\* C22 as stated: a transport operation that fails inside a loop of the
\* agent (the xadd of an alert in the tailing loop; the xadd of publish_stats
\* or publish_health in the health/stats loop) leaves the loop running and
\* adds one to the error counter.
C22_LoopCountsTransportFailure ==
    [][/\ \A i \in failedPub' \ failedPub :
             log[i] = "alert" => astats'.errors = astats.errors + 1 /\ tailing'
       /\ (/\ Len(hcalls') > Len(hcalls)
           /\ hcalls'[Len(hcalls')].by = "loop"
           /\ ~hcalls'[Len(hcalls')].ok)
          => astats'.errors = astats.errors + 1 /\ spc' # "done"]_vars

\* C23 as stated: when the agent has shut down and a record with status
\* shutdown was published, that record is the last one of the health stream.
C23_ShutdownRecordIsFinal ==
    mpc = "exited" /\ "shutdown" \in Range(health) =>
        health[Len(health)] = "shutdown"

\* C24: stop() goes on to one flush_buffer() of its own after it has set the
\* stop event; when that flush wrote the buffer and no example was logged
\* since stop() was called, the buffer is empty after stop() and every
\* example that was in it is on disk, and a flush_buffer() called after
\* stop() writes nothing, returns 0 and leaves the buffer empty.
C24_StopFlushesOnceMore ==
    /\ [](dpc = "stopped" =>
            /\ flushLog["stop"].calls /\ (stopEvent \/ fpc = "done")
            /\ flushLog["stop"].ok /\ ~lateLog =>
                  /\ buffer = <<>>
                  /\ flushLog["stop"].ret = Len(flushLog["stop"].before)
                  /\ Range(flushLog["stop"].before) \subseteq Range(disk))
    /\ [][flushLog'["again"] # flushLog["again"] /\ flushLog["stop"].ok /\ ~lateLog =>
            /\ flushLog'["again"].ret = 0 /\ flushLog'["again"].wrote = 0
            /\ disk' = disk /\ buffer' = <<>>]_vars

\* stop() wrote an example that was still in the buffer, and the
\* flush_buffer() that followed it found nothing to write
C24_Witness ==
    /\ flushLog["again"].calls /\ flushLog["again"].ret = 0
    /\ flushLog["stop"].ok /\ flushLog["stop"].ret > 0 /\ ~lateLog
    /\ buffer = <<>> /\ stopEvent

\* C25 as stated: the dict yielded for a published event is the event plus
\* the one added key _stream_metadata, and every key of the event has the
\* value and type it had.
C25_WireRoundTrip ==
    wpc = "yielded" =>
        /\ "_stream_metadata" \notin DOMAIN wevent
        /\ DOMAIN wyield = DOMAIN wevent \cup {"_stream_metadata"}
        /\ \A k \in DOMAIN wevent : wyield[k] = wevent[k]

\* C25 amended: for a published event that has no member named
\* _stream_metadata, the dict yielded is the event plus the one added key
\* _stream_metadata, and every key of the event has the value and type it
\* had (a member of that name is replaced by the consumer's metadata).
C25_WireRoundTripOtherKeys ==
    wpc = "yielded" =>
        /\ DOMAIN wyield = DOMAIN wevent \cup {"_stream_metadata"}
        /\ \A k \in DOMAIN wevent \ {"_stream_metadata"} : wyield[k] = wevent[k]
        /\ wyield["_stream_metadata"] = StreamMetadata(wire[1])

\* an event with a numeric port and a nested alert member was yielded
C25_Witness ==
    /\ wpc = "yielded"
    /\ "_stream_metadata" \notin DOMAIN wevent
    /\ wevent["src_port"] = JsonInt(1) /\ wyield["src_port"].t = "int"
    /\ wyield["alert"].v["severity"] = JsonInt(1)

\* C26: the block record that set_blocked_ip(ip, ttl) wrote exists until
\* ttl after the write and is gone then, and the ttl it has left goes down
\* with time only: no step of the dispatcher (reading commands, executing a
\* block or unblock whatever its outcome, publishing or losing the ack)
\* changes a block record or the index.
C26_BlockRecordExpiresOnSchedule ==
    /\ [](\A ip \in Ips :
            /\ Exists(blocked[ip]) <=> BlockRecordLive(ip)
            /\ Exists(blocked[ip]) => blocked[ip].ttl = blockLog[ip].ttl - blockLog[ip].age)
    /\ [][avars' # avars => blocked' = blocked /\ activeBlocks' = activeBlocks]_vars

\* an unblock command failed on the firewall and its ack was lost, and the
\* block record of the ip has expired at the end of its ttl
C26_Witness ==
    /\ \E e \in execLog : cmds[e.id].action = "unblock" /\ e.fw /\ ~e.success
    /\ ackStream = <<>>
    /\ \E ip \in OneIp :
         blockLog[ip].ttl > 0 /\ blockLog[ip].age = blockLog[ip].ttl /\ ~Exists(blocked[ip])

\* C27 as stated: the group's last-delivered id changes only in the step of
\* a group read that delivers records, and the entries of the pending list
\* and their owners change only in a read, an acknowledge or a claim.
C27_OffsetsOwnedByTransport ==
    [][/\ lastDelivered' # lastDelivered =>
             \E c \in Consumers : pc[c] = "idle" /\ pc'[c] = "consume" /\ batch'[c] # <<>>
       /\ DOMAIN pel' # DOMAIN pel =>
             \/ \E c \in Consumers : pc[c] = "idle" /\ pc'[c] = "consume"
             \/ ackLog' # ackLog
       /\ (\E m \in DOMAIN pel \cap DOMAIN pel' : pel'[m].owner # pel[m].owner) =>
             race' # race]_vars

\* C28 as stated: every rate-limit counter that exists carries an expiry,
\* whichever command of increment_rate_limit the transport failed on.
C28_EveryCounterExpires ==
    \A k \in Ips \X Windows : Exists(rateKeys[k]) => rateKeys[k].ttl > 0

\* C29 as stated: when a reclaim pass claims a record that fails to decode,
\* the pass acknowledges it: after the step of the claim the record is not
\* in the pending list any more.
C29_ReclaimedUndecodableDropped ==
    [][\A r \in race' \ race : ~ParseMessage(r.id) => r.id \notin DOMAIN pel']_vars

\* C30 as stated: in single-consumer mode a record that fails to decode is
\* read once and never again, and once the generator is through with it the
\* last-seen id is past it ('$' reads past every record there is).
C30_UndecodableReadOnce ==
    \A m \in 1..Len(stream) :
        ~ParseMessage(m) /\ greads[m] > 0 =>
            /\ greads[m] = 1
            /\ gpc = "idle" => genLastId = Dollar \/ genLastId >= m

\* C31 as stated: an unblock command that succeeds leaves no AI block rule
\* of its address in the rule list, however many there were; and an unblock
\* of an address without a rule changes nothing.
C31_UnblockRemovesEveryRule ==
    [][\A e \in execLog' \ execLog :
          e.success /\ cmds[e.id].action = "unblock" =>
             /\ \A i \in 1..Len(rules') : rules'[i] # cmds[e.id].ip
             /\ (\A i \in 1..Len(rules) : rules[i] # cmds[e.id].ip) => rules' = rules]_vars

\* C32 as stated: every command of the command stream that can be processed
\* (its threat_score is a number) is eventually executed with an ack
\* attempt, whatever records stand before it in the stream.
C32_EveryCommandExecuted ==
    \A k \in 1..MaxCmds :
        (Len(cmds) >= k /\ cmds[k].scoreOk) ~> (\E e \in execLog : e.id = k /\ e.ack)

\* C33 as stated: across restarts of the agent each command record is
\* executed at most once: a step of execute_command that runs a command
\* through to its ack attempt finds no earlier execution of that command.
C33_ExecutedAtMostOnce ==
    [][apc = "exec" /\ abatch # <<>> /\ abatch' # abatch /\ cmds[Head(abatch)].scoreOk =>
          ~\E e \in execLog : e.id = Head(abatch) /\ e.ack]_vars

\* C34 as stated: of the decodable records appended after the generator's
\* first xread was sent, none is skipped: when the generator has returned a
\* record, it has returned every such record with a smaller id.
C34_NoneSkipped ==
    \A m \in gdelivered : \A k \in 1..(m - 1) :
        gstart >= 0 /\ k > gstart /\ ParseMessage(k) => k \in gdelivered

\* C35 as stated: whenever no caller is inside a block operation, every ip
\* with a live block record is a member of the active_blocks index.
C35_LiveRecordIsIndexed ==
    (\A t \in Callers : kpc[t] = "idle") =>
        \A ip \in Ips : Exists(blocked[ip]) => ip \in activeBlocks

\* C36 as stated: whatever the lines that the tailing loop has read, the
\* loop is still running.
C36_LoopSurvivesEveryLine ==
    tailPos > 0 => tailing

\* C37 as stated: whenever no thread is inside an increment, the errors
\* counter equals the number of failures that the loops counted.
C37_ErrorsCounterExact ==
    (\A t \in StatThreads : sreg[t] < 0) => astats.errors = scounted

\* C38 as stated: every example that log_classification accepted is in the
\* decisions file once or still in the buffer, never both and never twice
\* in the file: the examples collected are those written plus those
\* buffered.
C38_EachExampleWrittenOnce ==
    /\ \A i, j \in 1..Len(disk) : i # j => disk[i] # disk[j]
    /\ Range(buffer) \cap Range(disk) = {}
    /\ Cardinality(Logged) = Len(disk) + Len(buffer)

\* C39 as stated: no public method of a consumer built on a disabled or
\* absent client raises, and none touches the stream or the group.
C39_DisabledConsumerInert ==
    /\ [](cret.op # "none" => ~cret.raised)
    /\ [][cret' # cret => UNCHANGED <<stream, lastDelivered, pel>>]_vars

\* the last call of the cache was unblock_ip(ip) and it returned True
Unblocked(r, ip) == r.op = "unblock_ip" /\ r.ip = ip /\ r.ok /\ r.value = TRUE

\* C40: when unblock_ip(ip) returns True, the block record and the index
\* member of the ip are gone, and were they gone before, nothing changed;
\* an is_blocked(ip) that follows returns false and a get_active_blocks()
\* that follows does not list the ip.
C40_UnblockRemovesRecordAndMember ==
    [][\A ip \in Ips :
          /\ Unblocked(ret', ip) =>
                /\ ~Exists(blocked'[ip]) /\ ip \notin activeBlocks'
                /\ (~Exists(blocked[ip]) /\ ip \notin activeBlocks) =>
                       blocked' = blocked /\ activeBlocks' = activeBlocks
          /\ Unblocked(ret, ip) /\ ret'.op = "is_blocked" /\ ret'.ip = ip /\ ret'.ok =>
                ret'.value = FALSE
          /\ Unblocked(ret, ip) /\ ret'.op = "get_active_blocks" /\ ret'.ok =>
                ip \notin ret'.value]_vars

\* unblock_ip went through both commands on an enabled client and returned
\* True
C40_Witness ==
    \E ip \in Ips :
        /\ enabled /\ ret.op = "unblock_ip" /\ Unblocked(ret, ip) /\ ret.cmds = 2
        /\ ~Exists(blocked[ip]) /\ ip \notin activeBlocks

=============================================================================
